---------------------------- MODULE Spec2Model ----------------------------
(***************************************************************************)
(* State-machine model of the server-side game-state services:             *)
(*   - ResourceService (src/server/services/ResourceService.ts)            *)
(*   - EventService    (src/server/services/EventService.ts)               *)
(*   - LootService     (src/server/services/LootService.ts)                *)
(*   - MessageService  (src/server/services/MessageService.ts)             *)
(*   - NPCService      (src/server/services/NPCService.ts)                 *)
(*   - PlayerDataService (src/server/services/PlayerDataService.ts)        *)
(* Numbers are modelled as integers; tick() timestamps (lastUpdated, the   *)
(* timestamp of a GameEvent) are not part of any property stated here and  *)
(* are left out of the records.                                            *)
(***************************************************************************)
EXTENDS Integers, Sequences, FiniteSets, TLC

VARIABLES
    playerResources,   \* ResourceService.playerResources : Map<userId, PlayerResources>
    resLast,           \* the last ResourceService call: arguments, result, notifications raised
    eventListeners,    \* EventService.eventListeners : Map<eventName, Array<callback>>
    eventHistory,      \* EventService.eventHistory : Array<GameEvent>
    busLast,           \* the last EventService call: arguments, handlers invoked, faults caught
    lootGen,           \* a generateLootFromTable call: table, multiplier, random draws, result
    activeLootDrops,   \* LootService.activeLootDrops : Map<lootId, LootDrop>
    lootModels,        \* ids of the Parts Loot_<id> in the Workspace folder LootDrops
    lootAnimations,    \* keys of LootService.lootAnimations : Map<lootId, RBXScriptConnection>
    nextLootId,        \* LootService.nextLootId
    lootSweepAt,       \* the time at which the task.wait of the loot cleanup loop ends
    lootLast,          \* the last LootService call: arguments and result
    messageQueue,      \* MessageService.messageQueue : Map<messageId, QueuedMessage>
    playerMessageHistory, \* MessageService.playerMessageHistory : Map<userId, Array<message>>
    nextMessageId,     \* the number of message ids handed out by generateUniqueId
    msgSweepAt,        \* the time at which the task.wait of the message cleanup loop ends
    msgLast,           \* the last MessageService call: arguments and result
    spawnedNPCs,       \* NPCService.spawnedNPCs : Map<npcId, SpawnedNPC>
    npcModels,         \* ids of the NPC models in the Workspace folder NPCs
    nextNPCId,         \* NPCService.nextNPCId
    npcDeaths,         \* handleNPCDeath calls suspended in task.wait: npcId -> end of the wait
    npcLast,           \* the last NPCService call: arguments and result
    playersInGame,     \* Players.GetPlayers(): the players between PlayerAdded and PlayerRemoving
    dataStore,         \* the DataStore "PlayerProfiles": key Player_<userId> -> record
    playerProfiles,    \* PlayerDataService.playerProfiles : Map<userId, PlayerProfile>
    sessionStartTimes, \* PlayerDataService.sessionStartTimes : Map<userId, number>
    dataPending,       \* the GetAsync and SetAsync requests that have not returned yet
    dataRequests,      \* the numbers of GetAsync and SetAsync requests made so far
    dataLast,          \* the last step of a PlayerDataService call: arguments, outcome of the request, result
    now                \* tick(): the server clock, in seconds

resVars == <<playerResources, resLast>>
busVars == <<eventListeners, eventHistory, busLast>>
lootVars == <<activeLootDrops, lootModels, lootAnimations, nextLootId, lootSweepAt, lootLast>>
msgVars == <<messageQueue, playerMessageHistory, nextMessageId, msgSweepAt, msgLast>>
npcVars == <<spawnedNPCs, npcModels, nextNPCId, npcDeaths, npcLast>>
dataVars == <<playersInGame, dataStore, playerProfiles, sessionStartTimes, dataPending, dataRequests, dataLast>>
actorVars == <<npcVars, dataVars>>
worldVars == <<lootGen, lootVars, msgVars, actorVars, now>>

vars == <<resVars, busVars, worldVars>>

(***************************************************************************)
(* Inputs of the calls.                                                    *)
(***************************************************************************)
Players == {1, 2}

\* RESOURCE_KEYS of shared/definitions/Resources.ts (the keys the service's
\* depletion switch names); two of them are exercised.
RESOURCE_KEYS == {"Health", "Mana"}

\* (player, key) pairs the calls are made on
Targets == {<<1, "Health">>, <<1, "Mana">>, <<2, "Health">>}

SetValues      == {-10, 20, 150}     \* below 0, inside [0, max], above max
ModifyDeltas   == {-80, 80}
MaxValues      == {-10, 0, 20, 100}  \* negative, zero, below current, at default
ConsumeAmounts == {-80, 0, 80, 200}  \* negative, zero, affordable, unaffordable

\* DEFAULT_RESOURCES[key] of shared/definitions/Resources.ts: current and max
DefaultCurrent == 100
DefaultMax     == 100

DEFAULT_RESOURCES(resourceKey) == [current |-> DefaultCurrent, max |-> DefaultMax]

\* ResourceMeta[key] is defined for every resource key
HasResourceMeta(resourceKey) == resourceKey \in RESOURCE_KEYS

(***************************************************************************)
(* Helpers: Map and optional values.                                       *)
(***************************************************************************)
EmptyMap == [x \in {} |-> 0]

MapSet(m, k, v) == [x \in (DOMAIN m) \cup {k} |-> IF x = k THEN v ELSE m[x]]

MapDelete(m, k) == [x \in (DOMAIN m) \ {k} |-> m[x]]

\* number | undefined : <<>> is undefined, <<v>> is the number v
Undefined == <<>>

Some(v) == <<v>>

MathMax(a, b) == IF a >= b THEN a ELSE b

MathMin(a, b) == IF a <= b THEN a ELSE b

(***************************************************************************)
(* ResourceService                                                         *)
(***************************************************************************)

\* math.floor((newValue / maxValue) * 100); 0/0 is NaN (<<>>).  After the
\* clamp newValue is 0 whenever maxValue <= 0.
Percentage(newValue, maxValue) ==
    IF maxValue = 0 THEN Undefined
    ELSE IF maxValue > 0 THEN Some((100 * newValue) \div maxValue)
    ELSE Some(0 - ((100 * newValue + (0 - maxValue) - 1) \div (0 - maxValue)))

\* newValue <= 0
IsDepletedMutant(newValue) == newValue < 0

IsDepleted(newValue) == newValue <= 0

\* newValue / maxValue <= 0.2 in floating point: x/0 is NaN or +inf for
\* x >= 0 and compares false; a negative divisor flips the inequality.
IsLowMutant(newValue, maxValue) ==
    IF maxValue = 0 THEN FALSE
    ELSE IF maxValue > 0 THEN 5 * newValue < maxValue
    ELSE 5 * newValue >= maxValue

IsLow(newValue, maxValue) ==
    IF maxValue = 0 THEN newValue < 0
    ELSE IF maxValue > 0 THEN 5 * newValue <= maxValue
    ELSE 5 * newValue >= maxValue

\* handleResourceDepletion: prints the depletion notice of the key
handleResourceDepletion(resourceKey) ==
    <<[type |-> "resourceDepleted", resourceKey |-> resourceKey]>>

\* handleLowResource: prints the low-resource notice of the key
handleLowResource(resourceKey) ==
    <<[type |-> "resourceLow", resourceKey |-> resourceKey]>>

\* The notifications one call of onResourceChanged raises, in order.  They
\* are print() lines: the service holds no reference to EventService.
onResourceChangedMutant(resourceKey, newValue, maxValue) ==
    (IF HasResourceMeta(resourceKey) /\ IsDepleted(newValue)
        THEN handleResourceDepletion(resourceKey) ELSE <<>>)
    \o
    (IF HasResourceMeta(resourceKey) /\ IsLow(newValue, maxValue)
        THEN handleLowResource(resourceKey) ELSE <<>>)

onResourceChanged(resourceKey, newValue, maxValue) ==
    <<[type |-> "resourceChanged", resourceKey |-> resourceKey,
       newValue |-> newValue, max |-> maxValue,
       percentage |-> Percentage(newValue, maxValue)]>>
    \o
    (IF HasResourceMeta(resourceKey) /\ IsDepleted(newValue)
        THEN handleResourceDepletion(resourceKey) ELSE <<>>)
    \o
    (IF HasResourceMeta(resourceKey) /\ IsLow(newValue, maxValue)
        THEN handleLowResource(resourceKey) ELSE <<>>)

\* math.max(0, math.min(value, maxValue))
Clamp(value, maxValue) == MathMax(0, MathMin(value, maxValue))

\* Result of a call: return value, the map afterwards, notifications raised
Result(ok, pr, events) == [ok |-> ok, pr |-> pr, events |-> events]

getPlayerResource(pr, player, resourceKey) ==
    IF player \notin DOMAIN pr THEN Undefined
    ELSE IF resourceKey \notin DOMAIN pr[player].resources THEN Undefined
    ELSE Some(pr[player].resources[resourceKey])

getPlayerMaxResource(pr, player, resourceKey) ==
    IF player \notin DOMAIN pr THEN Undefined
    ELSE IF resourceKey \notin DOMAIN pr[player].maxResources THEN Undefined
    ELSE Some(pr[player].maxResources[resourceKey])

initializePlayerResources(pr, player) ==
    Result(TRUE,
           MapSet(pr, player,
                  [resources    |-> [k \in RESOURCE_KEYS |-> DEFAULT_RESOURCES(k).current],
                   maxResources |-> [k \in RESOURCE_KEYS |-> DEFAULT_RESOURCES(k).max]]),
           <<>>)

setPlayerResource(pr, player, resourceKey, value) ==
    IF player \notin DOMAIN pr THEN Result(FALSE, pr, <<>>)
    ELSE IF resourceKey \notin DOMAIN pr[player].maxResources THEN Result(FALSE, pr, <<>>)
    ELSE LET maxValue     == pr[player].maxResources[resourceKey]
             clampedValue == Clamp(value, maxValue)
         IN  Result(TRUE,
                    [pr EXCEPT ![player].resources =
                        MapSet(pr[player].resources, resourceKey, clampedValue)],
                    onResourceChanged(resourceKey, clampedValue, maxValue))

modifyPlayerResource(pr, player, resourceKey, delta) ==
    LET currentValue == getPlayerResource(pr, player, resourceKey)
    IN  IF currentValue = Undefined THEN Result(FALSE, pr, <<>>)
        ELSE setPlayerResource(pr, player, resourceKey, currentValue[1] + delta)

setPlayerMaxResourceMutant(pr, player, resourceKey, maxValue) ==
    IF player \notin DOMAIN pr THEN Result(FALSE, pr, <<>>)
    ELSE Result(TRUE,
                [pr EXCEPT ![player].maxResources =
                    MapSet(pr[player].maxResources, resourceKey, maxValue)],
                <<>>)

setPlayerMaxResource(pr, player, resourceKey, maxValue) ==
    IF player \notin DOMAIN pr THEN Result(FALSE, pr, <<>>)
    ELSE LET data        == pr[player]
             newMax      == MapSet(data.maxResources, resourceKey, maxValue)
             lowerIt     == /\ resourceKey \in DOMAIN data.resources
                            /\ data.resources[resourceKey] > maxValue
             newCurrent  == IF lowerIt
                               THEN MapSet(data.resources, resourceKey, maxValue)
                               ELSE data.resources
         IN  Result(TRUE,
                    [pr EXCEPT ![player] = [resources |-> newCurrent, maxResources |-> newMax]],
                    <<>>)

hasEnoughResource(pr, player, resourceKey, requiredAmount) ==
    LET currentAmount == getPlayerResource(pr, player, resourceKey)
    IN  currentAmount # Undefined /\ currentAmount[1] >= requiredAmount

consumeResourceMutant(pr, player, resourceKey, amount) ==
    modifyPlayerResource(pr, player, resourceKey, 0 - amount)

consumeResource(pr, player, resourceKey, amount) ==
    IF ~hasEnoughResource(pr, player, resourceKey, amount) THEN Result(FALSE, pr, <<>>)
    ELSE modifyPlayerResource(pr, player, resourceKey, 0 - amount)

restoreResource(pr, player, resourceKey) ==
    LET maxValue == getPlayerMaxResource(pr, player, resourceKey)
    IN  IF maxValue = Undefined THEN Result(FALSE, pr, <<>>)
        ELSE setPlayerResource(pr, player, resourceKey, maxValue[1])

cleanupPlayerMutant(pr, player) == Result(TRUE, pr, <<>>)

cleanupPlayer(pr, player) == Result(TRUE, MapDelete(pr, player), <<>>)

\* One call on the service: the state moves to the call's result and the
\* call is recorded with the map it started from.
ResourceCall(op, player, resourceKey, arg, r) ==
    /\ playerResources' = r.pr
    /\ resLast' = [op |-> op, player |-> player, resourceKey |-> resourceKey,
                   arg |-> arg, ok |-> r.ok, events |-> r.events,
                   pre |-> playerResources]
    /\ UNCHANGED <<busVars, worldVars>>

InitializeIn(P) ==
    \E p \in P :
        ResourceCall("initialize", p, "", 0, initializePlayerResources(playerResources, p))

\* getPlayerResource(player, resourceKey); ok records that a value came back
GetResourceOn(T) ==
    \E t \in T :
        LET value == getPlayerResource(playerResources, t[1], t[2])
        IN  ResourceCall("get", t[1], t[2], 0, Result(value # Undefined, playerResources, <<>>))

SetResourceOn(T) ==
    \E t \in T, v \in SetValues :
        ResourceCall("set", t[1], t[2], v, setPlayerResource(playerResources, t[1], t[2], v))

ModifyResourceOn(T) ==
    \E t \in T, d \in ModifyDeltas :
        ResourceCall("modify", t[1], t[2], d, modifyPlayerResource(playerResources, t[1], t[2], d))

SetMaxResourceOn(T) ==
    \E t \in T, m \in MaxValues :
        ResourceCall("setMax", t[1], t[2], m, setPlayerMaxResource(playerResources, t[1], t[2], m))

ConsumeResourceOn(T) ==
    \E t \in T, a \in ConsumeAmounts :
        ResourceCall("consume", t[1], t[2], a, consumeResource(playerResources, t[1], t[2], a))

RestoreResourceOn(T) ==
    \E t \in T :
        ResourceCall("restore", t[1], t[2], 0, restoreResource(playerResources, t[1], t[2]))

CleanupIn(P) ==
    \E p \in P :
        ResourceCall("cleanup", p, "", 0, cleanupPlayer(playerResources, p))

InitializePlayer == InitializeIn(Players)

GetResource == GetResourceOn(Targets)

SetResource == SetResourceOn(Targets)

ModifyResource == ModifyResourceOn(Targets)

SetMaxResource == SetMaxResourceOn(Targets)

ConsumeResource == ConsumeResourceOn(Targets)

RestoreResource == RestoreResourceOn(Targets)

CleanupPlayer == CleanupIn(Players)

(***************************************************************************)
(* EventService                                                            *)
(***************************************************************************)
\* event names are free strings; two are exercised
EventNames == {"resourceChanged", "npcDefeated"}

\* Callbacks handed to on(): "a" returns normally, "boom" throws, "once"
\* unsubscribes itself from the event it is handling (a one-shot listener).
Callbacks == {"a", "boom", "once"}

EventData == {"d1"}

MaxListeners == 3    \* subscriptions held by the bus, all events together
MaxFires     == 2    \* fire() calls in one run

MAX_HISTORY == 1000

RECURSIVE SumLen(_, _)
SumLen(m, names) ==
    IF names = {} THEN 0
    ELSE LET n == CHOOSE x \in names : TRUE
         IN  Len(m[n]) + SumLen(m, names \ {n})

ListenerCount(m) == SumLen(m, DOMAIN m)

\* listeners.indexOf(callback): first position of the callback, 0 if none
RECURSIVE IndexFrom(_, _, _)
IndexFrom(listeners, callback, i) ==
    IF i > Len(listeners) THEN 0
    ELSE IF listeners[i] = callback THEN i
    ELSE IndexFrom(listeners, callback, i + 1)

IndexOf(listeners, callback) == IndexFrom(listeners, callback, 1)

\* listeners.remove(index): the later elements move one position down
RemoveAt(listeners, i) ==
    [j \in 1..(Len(listeners) - 1) |-> IF j < i THEN listeners[j] ELSE listeners[j + 1]]

\* on(eventName, callback)
on(m, eventName, callback) ==
    LET withEntry == IF eventName \in DOMAIN m THEN m ELSE MapSet(m, eventName, <<>>)
    IN  [withEntry EXCEPT ![eventName] = Append(@, callback)]

\* off(eventName, callback)
off(m, eventName, callback) ==
    IF eventName \notin DOMAIN m THEN m
    ELSE LET index == IndexOf(m[eventName], callback)
         IN  IF index = 0 THEN m
             ELSE [m EXCEPT ![eventName] = RemoveAt(@, index)]

\* What running a callback does: whether it throws, and the listener map
\* it leaves behind.
RunCallback(m, eventName, callback) ==
    [throws    |-> callback = "boom",
     listeners |-> IF callback = "once" THEN off(m, eventName, callback) ELSE m]

\* try { listener(data) } catch (error) { warn(...) }: every error is caught
IsCaught(throws) == TRUE

\* The for..of loop of fire(): it walks the live array by position, so the
\* array as the callbacks leave it decides which element comes next.
\* acc = [listeners, invoked, caught, returned]
RECURSIVE DispatchFrom(_, _, _, _)
DispatchFrom(eventName, data, i, acc) ==
    IF i > Len(acc.listeners[eventName]) THEN acc
    ELSE LET listener == acc.listeners[eventName][i]
             run      == RunCallback(acc.listeners, eventName, listener)
             invoked  == Append(acc.invoked, [callback |-> listener, data |-> data])
         IN  IF run.throws /\ ~IsCaught(run.throws)
                THEN [listeners |-> run.listeners, invoked |-> invoked,
                      caught |-> acc.caught, returned |-> FALSE]
                ELSE DispatchFrom(eventName, data, i + 1,
                        [listeners |-> run.listeners, invoked |-> invoked,
                         caught |-> acc.caught + (IF run.throws THEN 1 ELSE 0),
                         returned |-> TRUE])

DispatchMutant(m, eventName, data) ==
    LET start == [listeners |-> m, invoked |-> <<>>, caught |-> 0, returned |-> TRUE]
    IN  IF eventName \notin DOMAIN m THEN [start EXCEPT !.returned = FALSE]
        ELSE DispatchFrom(eventName, data, 1, start)

Dispatch(m, eventName, data) ==
    LET start == [listeners |-> m, invoked |-> <<>>, caught |-> 0, returned |-> TRUE]
    IN  IF eventName \notin DOMAIN m THEN start
        ELSE DispatchFrom(eventName, data, 1, start)

\* eventHistory.push(event); if (size > MAX_HISTORY) eventHistory.shift()
PushHistoryMutant(history, event) == Append(history, event)

PushHistory(history, event) ==
    LET pushed == Append(history, event)
    IN  IF Len(pushed) > MAX_HISTORY THEN Tail(pushed) ELSE pushed

BusCall(op, eventName, callback, data, d) ==
    /\ eventListeners' = d.listeners
    /\ busLast' = [op |-> op, name |-> eventName, callback |-> callback, data |-> data,
                   pre |-> eventListeners, history |-> eventHistory,
                   invoked |-> d.invoked,
                   caught |-> d.caught, returned |-> d.returned]

NoDispatch(m) == [listeners |-> m, invoked |-> <<>>, caught |-> 0, returned |-> TRUE]

OnAmong(N, C) ==
    \E n \in N, c \in C :
        /\ ListenerCount(eventListeners) < MaxListeners
        /\ BusCall("on", n, c, "", NoDispatch(on(eventListeners, n, c)))
        /\ UNCHANGED <<eventHistory, resVars, worldVars>>

On == OnAmong(EventNames, Callbacks)

Off ==
    \E n \in EventNames, c \in Callbacks :
        /\ BusCall("off", n, c, "", NoDispatch(off(eventListeners, n, c)))
        /\ UNCHANGED <<eventHistory, resVars, worldVars>>

\* fire(eventName, data)
FireCall(n, data) ==
    /\ eventHistory' = PushHistory(eventHistory, [name |-> n, data |-> data])
    /\ BusCall("fire", n, "", data, Dispatch(eventListeners, n, data))
    /\ UNCHANGED <<resVars, worldVars>>

Fire ==
    \E n \in EventNames, data \in EventData :
        /\ Len(eventHistory) < MaxFires
        /\ FireCall(n, data)

\* A publisher that numbers its payloads: the data of a fire is the data of
\* the newest event in the history plus one.
NextSerial == IF eventHistory = <<>> THEN 1 ELSE eventHistory[Len(eventHistory)].data + 1

HistoryOverrun == 3   \* fires past MAX_HISTORY in one run

FireSerial ==
    /\ NextSerial <= MAX_HISTORY + HistoryOverrun
    /\ FireCall("npcDefeated", NextSerial)

\* clearHistory()
ClearHistory ==
    /\ eventHistory # <<>>
    /\ eventHistory' = <<>>
    /\ BusCall("clearHistory", "", "", "", NoDispatch(eventListeners))
    /\ UNCHANGED <<resVars, worldVars>>

(***************************************************************************)
(* Initial state: the services right after construction.                   *)
(***************************************************************************)
InitServices ==
    /\ playerResources = EmptyMap
    /\ resLast = [op |-> "none", player |-> 0, resourceKey |-> "", arg |-> 0,
                  ok |-> FALSE, events |-> <<>>, pre |-> EmptyMap]
    /\ eventListeners = EmptyMap
    /\ eventHistory = <<>>
    /\ busLast = [op |-> "none", name |-> "", callback |-> "", data |-> "",
                  pre |-> EmptyMap, history |-> <<>>,
                  invoked |-> <<>>, caught |-> 0, returned |-> TRUE]

(***************************************************************************)
(* LootService: generation of loot from a table.                           *)
(*                                                                         *)
(* A quantity of a table is <<q>> (a number) or <<lo, hi>> (a range).  A   *)
(* multiplier is counted in halves: 1 is 0.5, 2 is 1, 3 is 1.5.  A draw of *)
(* math.random() * totalWeight is counted in halves too: the draws are 0,  *)
(* 0.5, 1, ... below totalWeight, which covers 0, every cumulative weight  *)
(* below the total and the values between them.                            *)
(***************************************************************************)
Items == {"gold", "gem"}
Weights == {0, 1}
QuantitySpecs == {<<1>>, <<1, 2>>}
Multipliers == {1, 2, 3}

MaxRolls == 2   \* the largest roll count of a table

LootEntries == [drop : Items, weight : Weights, quantity : QuantitySpecs, unique : BOOLEAN]
GuaranteedEntries == [drop : Items, quantity : QuantitySpecs]

EntryLists == UNION {[1..k -> LootEntries] : k \in 0..2}
GuaranteedLists == UNION {[1..k -> GuaranteedEntries] : k \in 0..2}
RollRanges == {<<1, 1>>, <<1, MaxRolls>>}

\* LootTableMeta of shared/definitions/Loot.ts
LootTables == [entries : EntryLists, guaranteed : GuaranteedLists, rolls : RollRanges]

\* lootTable.entries.reduce((sum, entry) => sum + entry.weight, 0), over
\* the first n entries
RECURSIVE CumulativeWeight(_, _)
CumulativeWeight(entries, n) ==
    IF n = 0 THEN 0 ELSE CumulativeWeight(entries, n - 1) + entries[n].weight

TotalWeight(entries) == CumulativeWeight(entries, Len(entries))

\* math.random() * totalWeight, in halves
RandomValues(totalWeight) ==
    IF totalWeight = 0 THEN {0} ELSE 0..(2 * totalWeight - 1)

\* math.random(min, max) of calculateQuantity
QuantityDraws(quantity) ==
    IF Len(quantity) = 1 THEN {quantity[1]} ELSE quantity[1]..quantity[2]

\* math.floor(baseQuantity * multiplier)
calculateQuantityMutant(baseQuantity, multiplier) == (baseQuantity * multiplier + 1) \div 2

calculateQuantity(baseQuantity, multiplier) == (baseQuantity * multiplier) \div 2

\* the walk over the entries: the first entry with randomValue <= currentWeight,
\* 0 when the walk ends without a break
SelectEntry(entries, randomValue) ==
    LET hits == {i \in 1..Len(entries) : randomValue <= 2 * CumulativeWeight(entries, i)}
    IN  IF hits = {} THEN 0 ELSE CHOOSE i \in hits : \A j \in hits : i <= j

\* results.find(r => r.drop === drop): the position of the first element
\* with that drop, 0 for undefined
FindResultMutant(results, drop) == 0

FindResult(results, drop) ==
    LET hits == {i \in 1..Len(results) : results[i].drop = drop}
    IN  IF hits = {} THEN 0 ELSE CHOOSE i \in hits : \A j \in hits : i <= j

\* the body of the branch taken for the selected entry
AddRolledMutant(results, entry, quantity) ==
    LET existingResult == FindResult(results, entry.drop)
    IN  IF existingResult # 0
           THEN [results EXCEPT ![existingResult].quantity = @ + quantity]
           ELSE Append(results, [drop |-> entry.drop, quantity |-> quantity])

AddRolled(results, entry, quantity) ==
    LET existingResult == FindResult(results, entry.drop)
    IN  IF existingResult # 0 /\ ~entry.unique
           THEN [results EXCEPT ![existingResult].quantity = @ + quantity]
        ELSE IF existingResult = 0
           THEN Append(results, [drop |-> entry.drop, quantity |-> quantity])
        ELSE results

\* A generation in progress: the results so far, the quantities drawn for
\* the guaranteed drops (granted) and, for every roll, the entry selected (0
\* for none) and the quantity drawn for it (rolled).
NoLoot == [results |-> <<>>, granted |-> <<>>, rolled |-> <<>>]

\* the loop over lootTable.guaranteed, from the g-th drop on, for every draw
RECURSIVE AddGuaranteed(_, _, _, _)
AddGuaranteedMutant(guaranteed, multiplier, g, gens) ==
    IF g > Len(guaranteed) THEN gens
    ELSE AddGuaranteed(guaranteed, multiplier, g + 1,
            {[gen EXCEPT !.results = Append(@, [drop |-> guaranteed[g].drop, quantity |-> q]),
                         !.granted = Append(@, q)] :
                gen \in gens, q \in QuantityDraws(guaranteed[g].quantity)})

AddGuaranteed(guaranteed, multiplier, g, gens) ==
    IF g > Len(guaranteed) THEN gens
    ELSE AddGuaranteed(guaranteed, multiplier, g + 1,
            {[gen EXCEPT !.results = Append(@, [drop |-> guaranteed[g].drop,
                                                quantity |-> calculateQuantity(q, multiplier)]),
                         !.granted = Append(@, q)] :
                gen \in gens, q \in QuantityDraws(guaranteed[g].quantity)})

\* one pass of the roll loop, for every draw
RollOnce(entries, multiplier, gen) ==
    UNION {
        LET i == SelectEntry(entries, randomValue)
        IN  IF i = 0
               THEN {[gen EXCEPT !.rolled = Append(@, [entry |-> 0, quantity |-> 0])]}
               ELSE {[gen EXCEPT !.results = AddRolled(@, entries[i],
                                                 calculateQuantity(q, multiplier)),
                                 !.rolled = Append(@, [entry |-> i, quantity |-> q])] :
                        q \in QuantityDraws(entries[i].quantity)} :
        randomValue \in RandomValues(TotalWeight(entries))}

\* rollCount passes of the roll loop
RECURSIVE RollTimes(_, _, _, _)
RollTimes(entries, multiplier, rollCount, gens) ==
    IF rollCount = 0 THEN gens
    ELSE RollTimes(entries, multiplier, rollCount - 1,
            UNION {RollOnce(entries, multiplier, gen) : gen \in gens})

\* generateLootFromTable(lootTable, multiplier): every result the random
\* draws can produce
generateLootFromTable(lootTable, multiplier) ==
    LET guaranteed == AddGuaranteed(lootTable.guaranteed, multiplier, 1, {NoLoot})
    IN  UNION {RollTimes(lootTable.entries, multiplier, rollCount, guaranteed) :
                  rollCount \in lootTable.rolls[1]..lootTable.rolls[2]}

\* a generation asked for and not yet made
Pending(lootTable, multiplier) ==
    [table |-> lootTable, multiplier |-> multiplier, pending |-> TRUE,
     results |-> <<>>, granted |-> <<>>, rolled |-> <<>>]

GenerateLoot ==
    /\ lootGen.pending
    /\ \E gen \in generateLootFromTable(lootGen.table, lootGen.multiplier) :
          lootGen' = [lootGen EXCEPT !.pending = FALSE, !.results = gen.results,
                                     !.granted = gen.granted, !.rolled = gen.rolled]
    /\ UNCHANGED <<resVars, busVars, lootVars, msgVars, actorVars, now>>

\* no generation asked for
InitLootGen ==
    lootGen = [Pending([entries |-> <<>>, guaranteed |-> <<>>, rolls |-> <<1, 1>>], 2)
                  EXCEPT !.pending = FALSE]

(***************************************************************************)
(* LootService: the drops in the world.  MessageService: the queue and the *)
(* histories.  Both start a cleanup loop in their constructor; task.wait(n)*)
(* is taken to end exactly n seconds after it was called, and a call takes *)
(* no time.  Positions and message texts are left out.                     *)
(***************************************************************************)
LOOT_EXPIRE_TIME == 60
LootCleanupWait == 10
MESSAGE_EXPIRE_TIME == 300
MessageCleanupWait == 30
MAX_HISTORY_PER_PLAYER == 50

MaxLootId == 2      \* loot ids handed out in one run
MaxMessageId == 2   \* message ids handed out in one run
CreateUntil == 10   \* drops and messages are created in the first seconds of a run
MaxTime == 350      \* the clock stops here

\* the clock advances by this much between two calls made while drops and
\* messages are created; afterwards it advances to the end of a task.wait
TickSteps == {5}

\* the multipliers dropLoot is called with, in halves: 0.5 and 1
DropMultipliers == {1, 2}

\* the players messages are sent to, and Players.GetPlayers()
Recipients == {1}

\* LootTableMetaMap of shared/definitions/Loot.ts: the tables dropLoot is
\* called on
LootTableMetaMap ==
    [coins |-> [entries |-> <<>>,
                guaranteed |-> <<[drop |-> "gold", quantity |-> <<1>>]>>,
                rolls |-> <<1, 1>>],
     chest |-> [entries |-> <<[drop |-> "gem", weight |-> 1, quantity |-> <<1, 2>>,
                               unique |-> FALSE]>>,
                guaranteed |-> <<>>,
                rolls |-> <<1, 1>>]]

TableKeys == {"coins", "chest", "none"}

\* getLootTable(tableKey)
getLootTable(tableKey) ==
    IF tableKey \in DOMAIN LootTableMetaMap THEN Some(LootTableMetaMap[tableKey]) ELSE Undefined

\* generateLoot(tableKey, multiplier): every list the call can return
generateLoot(tableKey, multiplier) ==
    LET lootTable == getLootTable(tableKey)
    IN  IF lootTable = Undefined
        THEN {<<>>}
        ELSE {[i \in 1..Len(gen.results) |->
                  [itemId |-> gen.results[i].drop, quantity |-> gen.results[i].quantity]] :
                 gen \in generateLootFromTable(lootTable[1], multiplier)}

\* the calls that create are made in the first seconds, and again when the
\* cleanup loop has had the time to remove what they created
RecreateAt == LOOT_EXPIRE_TIME + LootCleanupWait

\* the state of the LootService as one value
LootState == [drops |-> activeLootDrops, models |-> lootModels,
              animations |-> lootAnimations, nextId |-> nextLootId]

\* createLootDrop(itemId, quantity, position) at the time t, with
\* generateLootId and createLootModel
createLootDrop(st, itemId, quantity, t) ==
    LET id == st.nextId
        lootDrop == [id |-> id, itemId |-> itemId, quantity |-> quantity,
                     timestamp |-> t, expiresAt |-> t + LOOT_EXPIRE_TIME]
    IN  [drops |-> MapSet(st.drops, id, lootDrop),
         models |-> st.models \cup {id},
         animations |-> st.animations \cup {id},
         nextId |-> id + 1]

\* the loop of dropLoot over the generated loot, from the i-th element on
RECURSIVE createLootDrops(_, _, _, _)
createLootDrops(st, generatedLoot, i, t) ==
    IF i > Len(generatedLoot) THEN st
    ELSE createLootDrops(createLootDrop(st, generatedLoot[i].drop, generatedLoot[i].quantity, t),
                         generatedLoot, i + 1, t)

\* removeLootModel(lootId)
removeLootModelMutant(st, lootId) == [st EXCEPT !.models = @ \ {lootId}]
removeLootModel(st, lootId) ==
    [st EXCEPT !.models = @ \ {lootId}, !.animations = @ \ {lootId}]

\* collectLoot(lootId): the value returned
collectLootResult(st, lootId) ==
    IF lootId \in DOMAIN st.drops THEN Some(st.drops[lootId]) ELSE Undefined

\* collectLoot(lootId): the state left
collectLootMutant(st, lootId) ==
    IF lootId \notin DOMAIN st.drops THEN st ELSE removeLootModel(st, lootId)

collectLoot(st, lootId) ==
    IF lootId \notin DOMAIN st.drops THEN st
    ELSE removeLootModel([st EXCEPT !.drops = MapDelete(@, lootId)], lootId)

\* the loop of cleanupExpiredLoot over the expired ids
RECURSIVE removeLoot(_, _)
removeLoot(st, ids) ==
    IF ids = {} THEN st
    ELSE LET id == CHOOSE i \in ids : TRUE
         IN  removeLoot(removeLootModel([st EXCEPT !.drops = MapDelete(@, id)], id), ids \ {id})

\* cleanupExpiredLoot() at the time t
ExpiredLootMutant(drops, t) == {id \in DOMAIN drops : t > drops[id].expiresAt}

ExpiredLoot(drops, t) == {id \in DOMAIN drops : t >= drops[id].expiresAt}

cleanupExpiredLoot(st, t) == removeLoot(st, ExpiredLoot(st.drops, t))

LootCall(st, op, id, found, ids, result) ==
    /\ activeLootDrops' = st.drops
    /\ lootModels' = st.models
    /\ lootAnimations' = st.animations
    /\ nextLootId' = st.nextId
    /\ lootLast' = [op |-> op, id |-> id, found |-> found, ids |-> ids, result |-> result]
    /\ UNCHANGED <<resVars, busVars, lootGen, msgVars, actorVars, now>>

\* dropLoot(tableKey, position, multiplier)
DropLoot ==
    \E tableKey \in TableKeys, multiplier \in DropMultipliers :
        LET lootTable == getLootTable(tableKey)
        IN  /\ now <= CreateUntil \/ now = RecreateAt
            /\ IF lootTable = Undefined
                  THEN LootCall(LootState, "dropLoot", 0, FALSE, {}, Undefined) /\ UNCHANGED lootSweepAt
                  ELSE \E gen \in generateLootFromTable(lootTable[1], multiplier) :
                          /\ nextLootId + Len(gen.results) <= MaxLootId + 1
                          /\ LootCall(createLootDrops(LootState, gen.results, 1, now),
                                      "dropLoot", 0, TRUE,
                                      nextLootId..(nextLootId + Len(gen.results) - 1),
                                      Undefined)
                          /\ UNCHANGED lootSweepAt

\* generateLoot(tableKey, multiplier)
GenerateLootOf ==
    \E tableKey \in TableKeys, multiplier \in DropMultipliers :
        \E generated \in generateLoot(tableKey, multiplier) :
            /\ LootCall(LootState, "generateLoot", 0, getLootTable(tableKey) # Undefined, {},
                        Some(generated))
            /\ UNCHANGED lootSweepAt

\* collectLoot(lootId)
CollectLoot ==
    \E lootId \in 1..MaxLootId :
        /\ LootCall(collectLoot(LootState, lootId), "collectLoot", lootId,
                    lootId \in DOMAIN activeLootDrops, {}, collectLootResult(LootState, lootId))
        /\ UNCHANGED lootSweepAt

\* getActiveLootDrops(): the map itself
getActiveLootDrops(st) == st.drops

\* getLootNearPosition(position, radius); near holds the ids of the loot
\* ids whose position is within the radius
getLootNearPositionMutant(st, near, t) ==
    {id \in DOMAIN st.drops \cap near : t < st.drops[id].expiresAt}

getLootNearPosition(st, near, t) == DOMAIN st.drops \cap near

GetActiveLootDrops ==
    /\ LootCall(LootState, "getActiveLootDrops", 0, TRUE, {},
                Some(DOMAIN getActiveLootDrops(LootState)))
    /\ UNCHANGED lootSweepAt

GetLootNearPosition ==
    \E near \in SUBSET (1..MaxLootId) :
        /\ LootCall(LootState, "getLootNearPosition", 0, TRUE, near,
                    Some(getLootNearPosition(LootState, near, now)))
        /\ UNCHANGED lootSweepAt

\* the cleanup loop: task.wait(10) ends, cleanupExpiredLoot() runs and the
\* next task.wait(10) starts
CleanupExpiredLoot ==
    /\ now = lootSweepAt
    /\ LootCall(cleanupExpiredLoot(LootState, now), "cleanup", 0, FALSE,
                ExpiredLoot(activeLootDrops, now), Undefined)
    /\ lootSweepAt' = now + LootCleanupWait

\* no call of the LootService yet
LootIdle == nextLootId = 1 /\ lootLast.op \in {"none", "cleanup"}

\* generateUniqueId() of shared/helpers: an id not handed out before
generateUniqueId == nextMessageId

MessageOverrun == 3   \* sends past MAX_HISTORY_PER_PLAYER in one run

\* the arrays of players given to sendMessageToPlayers
PlayerLists == UNION {[1..n -> Recipients] : n \in 0..2}

\* the state of the MessageService as one value
MessageState == [queue |-> messageQueue, history |-> playerMessageHistory,
                 nextId |-> nextMessageId]

\* history.shift() while the history is longer than MAX_HISTORY_PER_PLAYER
RECURSIVE TrimHistory(_)
TrimHistoryMutant(history) ==
    IF Len(history) > MAX_HISTORY_PER_PLAYER
    THEN SubSeq(history, 1, MAX_HISTORY_PER_PLAYER) ELSE history
TrimHistory(history) ==
    IF Len(history) > MAX_HISTORY_PER_PLAYER THEN TrimHistory(Tail(history)) ELSE history

\* addToPlayerHistory(playerId, message)
addToPlayerHistory(history, playerId, id) ==
    LET old == IF playerId \in DOMAIN history THEN history[playerId] ELSE <<>>
    IN  MapSet(history, playerId, TrimHistory(Append(old, id)))

\* the loop of broadcastMessage over Players.GetPlayers()
RECURSIVE addToHistories(_, _, _)
addToHistories(history, players, id) ==
    IF players = {} THEN history
    ELSE LET p == CHOOSE q \in players : TRUE
         IN  addToHistories(addToPlayerHistory(history, p, id), players \ {p}, id)

\* the QueuedMessage of a message created at the time t
QueuedMessage(id, recipientId, t) ==
    [id |-> id, recipientId |-> recipientId, timestamp |-> t,
     expiresAt |-> t + MESSAGE_EXPIRE_TIME]

\* sendMessageToPlayer(player, ...) at the time t
sendMessageToPlayer(st, player, t) ==
    LET id == st.nextId
    IN  [queue |-> MapSet(st.queue, id, QueuedMessage(id, Some(player), t)),
         history |-> addToPlayerHistory(st.history, player, id),
         nextId |-> id + 1]

\* sendMessageToPlayers(players, ...) at the time t: the loop over the
\* players, from the i-th on
RECURSIVE sendMessageToPlayers(_, _, _, _)
sendMessageToPlayers(st, players, i, t) ==
    IF i > Len(players) THEN st
    ELSE sendMessageToPlayers(sendMessageToPlayer(st, players[i], t), players, i + 1, t)

\* sendSystemNotification(player, notificationType, ...) at the time t: the
\* type chooses the texts only
sendSystemNotification(st, player, t) == sendMessageToPlayer(st, player, t)

\* broadcastMessage(...) at the time t, with the connected players
broadcastMessage(st, connected, t) ==
    LET id == st.nextId
    IN  [queue |-> MapSet(st.queue, id, QueuedMessage(id, Undefined, t)),
         history |-> addToHistories(st.history, connected, id),
         nextId |-> id + 1]

\* the messages of the queue that are removed together
RemoveMessages(st, ids) ==
    [st EXCEPT !.queue = [id \in DOMAIN st.queue \ ids |-> st.queue[id]]]

\* cancelMessage(messageId): the value returned by messageQueue.delete
cancelMessageResult(st, messageId) == messageId \in DOMAIN st.queue

\* cancelMessage(messageId): the state left
cancelMessageMutant(st, messageId) ==
    [RemoveMessages(st, {messageId}) EXCEPT
        !.history = [p \in DOMAIN @ |-> SelectSeq(@[p], LAMBDA m : m # messageId)]]

cancelMessage(st, messageId) == RemoveMessages(st, {messageId})

\* clearPlayerMessageHistory(player)
clearPlayerMessageHistory(st, player) == [st EXCEPT !.history = MapDelete(@, player)]

\* the queued messages sent to the player
MessagesTo(queue, player) == {id \in DOMAIN queue : queue[id].recipientId = Some(player)}

\* cleanupPlayer(player) of the MessageService
messageCleanupPlayer(st, player) ==
    RemoveMessages(clearPlayerMessageHistory(st, player), MessagesTo(st.queue, player))

\* cleanupExpiredMessages() at the time t
ExpiredMessagesMutant(queue, t) ==
    {id \in DOMAIN queue : t >= queue[id].expiresAt - MessageCleanupWait}

ExpiredMessages(queue, t) == {id \in DOMAIN queue : t >= queue[id].expiresAt}

cleanupExpiredMessages(st, t) == RemoveMessages(st, ExpiredMessages(st.queue, t))

MessageCall(st, op, id, player, ids, result) ==
    /\ messageQueue' = st.queue
    /\ playerMessageHistory' = st.history
    /\ nextMessageId' = st.nextId
    /\ msgLast' = [op |-> op, id |-> id, player |-> player, ids |-> ids, result |-> result]
    /\ UNCHANGED <<resVars, busVars, lootGen, lootVars, actorVars, now>>

\* the sends of a short run: in the first seconds, a few messages
FewSends == now <= CreateUntil /\ nextMessageId <= MaxMessageId

\* the sends of a run that overruns a history: one send after the other, of
\* every kind on the first sends and around the overrun
ManySends == nextMessageId <= MAX_HISTORY_PER_PLAYER + MessageOverrun

VariedSends ==
    /\ ManySends
    /\ nextMessageId <= MaxMessageId \/ nextMessageId >= MAX_HISTORY_PER_PLAYER

SendMessageToPlayerWhen(allowed) ==
    \E player \in Recipients :
        /\ allowed
        /\ MessageCall(sendMessageToPlayer(MessageState, player, now),
                       "sendMessageToPlayer", generateUniqueId, player, {},
                       Some(generateUniqueId))
        /\ UNCHANGED msgSweepAt

SendMessageToPlayer == SendMessageToPlayerWhen(FewSends)

\* broadcastMessage with every subset of the players connected
BroadcastMessageWhen(allowed) ==
    \E connected \in SUBSET Recipients :
        /\ allowed
        /\ MessageCall(broadcastMessage(MessageState, connected, now),
                       "broadcastMessage", generateUniqueId, 0, {},
                       Some(generateUniqueId))
        /\ UNCHANGED msgSweepAt

BroadcastMessage == BroadcastMessageWhen(FewSends)

\* sendMessageToPlayers(players, ...); the ids returned are those from the
\* counter on
SendMessageToPlayersWhen(allowed) ==
    \E players \in PlayerLists :
        /\ allowed
        /\ MessageCall(sendMessageToPlayers(MessageState, players, 1, now),
                       "sendMessageToPlayers", 0, 0,
                       nextMessageId..(nextMessageId + Len(players) - 1), Undefined)
        /\ UNCHANGED msgSweepAt

SendSystemNotificationWhen(allowed) ==
    \E player \in Recipients :
        /\ allowed
        /\ MessageCall(sendSystemNotification(MessageState, player, now),
                       "sendSystemNotification", generateUniqueId, player, {},
                       Some(generateUniqueId))
        /\ UNCHANGED msgSweepAt

\* getMessage(messageId)
getMessage(st, messageId) ==
    IF messageId \in DOMAIN st.queue THEN Some(st.queue[messageId]) ELSE Undefined

GetMessage ==
    \E messageId \in 1..MaxMessageId :
        /\ MessageCall(MessageState, "getMessage", messageId, 0, {},
                       getMessage(MessageState, messageId))
        /\ UNCHANGED msgSweepAt

CancelMessage ==
    \E messageId \in 1..MaxMessageId :
        /\ MessageCall(cancelMessage(MessageState, messageId), "cancelMessage", messageId, 0,
                       {messageId} \cap DOMAIN messageQueue,
                       Some(cancelMessageResult(MessageState, messageId)))
        /\ UNCHANGED msgSweepAt

ClearPlayerMessageHistory ==
    \E player \in Recipients :
        /\ MessageCall(clearPlayerMessageHistory(MessageState, player),
                       "clearPlayerMessageHistory", 0, player, {}, Undefined)
        /\ UNCHANGED msgSweepAt

MessageCleanupPlayer ==
    \E player \in Recipients :
        /\ MessageCall(messageCleanupPlayer(MessageState, player), "cleanupPlayer", 0, player,
                       MessagesTo(messageQueue, player), Undefined)
        /\ UNCHANGED msgSweepAt

\* the cleanup loop: task.wait(30) ends, cleanupExpiredMessages() runs and
\* the next task.wait(30) starts
CleanupExpiredMessages ==
    /\ now = msgSweepAt
    /\ MessageCall(cleanupExpiredMessages(MessageState, now), "cleanup", 0, 0,
                   ExpiredMessages(messageQueue, now), Undefined)
    /\ msgSweepAt' = now + MessageCleanupWait

\* no call of the MessageService yet
MessagesIdle == nextMessageId = 1 /\ msgLast.op \in {"none", "cleanup"}

\* the end of the task.wait that ends first: the two cleanup loops and the
\* death handlers of the NPCs
NextWake ==
    LET ends == {lootSweepAt, msgSweepAt} \cup {npcDeaths[id] : id \in DOMAIN npcDeaths}
    IN  CHOOSE t \in ends : \A u \in ends : t <= u

\* time passes, up to the end of the next task.wait
Tick ==
    \E t \in {now + d : d \in TickSteps} \cup {NextWake} :
        /\ t > now
        /\ t <= MaxTime
        /\ t <= NextWake
        /\ t = NextWake \/ now <= CreateUntil
        /\ now' = t
        /\ UNCHANGED <<resVars, busVars, lootGen, lootVars, msgVars, actorVars>>

\* time passes, up to the expiry time of a drop or a message
TickToExpiry ==
    \E t \in {activeLootDrops[id].expiresAt : id \in DOMAIN activeLootDrops}
              \cup {messageQueue[id].expiresAt : id \in DOMAIN messageQueue} :
        /\ t > now
        /\ t <= MaxTime
        /\ t <= NextWake
        /\ now' = t
        /\ UNCHANGED <<resVars, busVars, lootGen, lootVars, msgVars, actorVars>>

InitStores ==
    /\ activeLootDrops = EmptyMap
    /\ lootModels = {}
    /\ lootAnimations = {}
    /\ nextLootId = 1
    /\ lootSweepAt = LootCleanupWait
    /\ lootLast = [op |-> "none", id |-> 0, found |-> FALSE, ids |-> {}, result |-> Undefined]
    /\ messageQueue = EmptyMap
    /\ playerMessageHistory = EmptyMap
    /\ nextMessageId = 1
    /\ msgSweepAt = MessageCleanupWait
    /\ msgLast = [op |-> "none", id |-> 0, player |-> 0, ids |-> {}, result |-> Undefined]
    /\ now = 0

(***************************************************************************)
(* NPCService: the spawned NPCs.  The model of an NPC is a clone of a      *)
(* template in the Workspace folder NPCs; the Heartbeat connection of      *)
(* setupNPCBehavior runs no logic and is left out, as are the position and *)
(* the spawn timestamp of the record.                                      *)
(***************************************************************************)
MaxNPCId == 2

HealthCap == 20

NPC_DESPAWN_DELAY == 5

\* NPCMetaMap of shared/definitions/NPC
NPCMetaMap ==
    [npcKey \in {"goblin", "dummy"} |->
        IF npcKey = "goblin"
        THEN [maxHealth |-> 20, lootTable |-> Some("coins")]
        ELSE [maxHealth |-> 10, lootTable |-> Undefined]]

NPCKeys == {"goblin", "dummy", "none"}

Damages == {-10, 10, 30}

getNPCMeta(npcKey) ==
    IF npcKey \in DOMAIN NPCMetaMap THEN Some(NPCMetaMap[npcKey]) ELSE Undefined

NpcState ==
    [spawned |-> spawnedNPCs, models |-> npcModels, nextId |-> nextNPCId,
     deaths |-> npcDeaths]

\* generateNPCId: the id handed out and the counter after it
generateNPCIdMutant(st) == [id |-> Cardinality(DOMAIN st.spawned) + 1, nextId |-> st.nextId + 1]
generateNPCId(st) == [id |-> st.nextId, nextId |-> st.nextId + 1]

\* spawnNPC; modelOk: createNPCModel found the template and cloned it
spawnNPCResult(st, npcKey, modelOk) ==
    IF getNPCMeta(npcKey) = Undefined \/ ~modelOk
    THEN Undefined
    ELSE Some(generateNPCId(st).id)

spawnNPC(st, npcKey, modelOk) ==
    IF getNPCMeta(npcKey) = Undefined \/ ~modelOk
    THEN st
    ELSE LET meta == getNPCMeta(npcKey)[1]
             gen == generateNPCId(st)
             npc == [id |-> gen.id, npcKey |-> npcKey, health |-> meta.maxHealth,
                     maxHealth |-> meta.maxHealth, isAlive |-> TRUE]
         IN  [st EXCEPT !.spawned = MapSet(@, gen.id, npc),
                        !.models = @ \cup {gen.id},
                        !.nextId = gen.nextId]

despawnNPCMutant(st, npcId) ==
    IF npcId \notin DOMAIN st.spawned
    THEN [st EXCEPT !.models = {}]
    ELSE [st EXCEPT !.spawned = MapDelete(@, npcId),
                    !.models = @ \ {npcId}]

despawnNPC(st, npcId) ==
    IF npcId \notin DOMAIN st.spawned
    THEN st
    ELSE [st EXCEPT !.spawned = MapDelete(@, npcId),
                    !.models = @ \ {npcId}]

\* handleNPCDeath up to its task.wait; dropLoot only prints
handleNPCDeath(st, npcId, time) ==
    [st EXCEPT !.spawned[npcId].isAlive = FALSE,
               !.deaths = MapSet(@, npcId, time + NPC_DESPAWN_DELAY)]

damageNPCAcceptedMutant(st, npcId) == npcId \in DOMAIN st.spawned

damageNPCAccepted(st, npcId) ==
    /\ npcId \in DOMAIN st.spawned
    /\ st.spawned[npcId].isAlive

\* damageNPC up to its return, or up to the task.wait of handleNPCDeath
damageNPC(st, npcId, damage, time) ==
    IF ~damageNPCAccepted(st, npcId)
    THEN st
    ELSE LET health == MathMax(0, st.spawned[npcId].health - damage)
             hit == [st EXCEPT !.spawned[npcId].health = health]
         IN  IF health <= 0 THEN handleNPCDeath(hit, npcId, time) ELSE hit

\* handleNPCDeath after its task.wait
finishNPCDeathMutant(st, npcId) ==
    [st EXCEPT !.spawned = EmptyMap, !.models = {}, !.deaths = MapDelete(@, npcId)]

finishNPCDeath(st, npcId) ==
    [despawnNPC(st, npcId) EXCEPT !.deaths = MapDelete(@, npcId)]

NpcCall(st, op, id, arg, result) ==
    /\ spawnedNPCs' = st.spawned
    /\ npcModels' = st.models
    /\ nextNPCId' = st.nextId
    /\ npcDeaths' = st.deaths
    /\ npcLast' = [op |-> op, id |-> id, arg |-> arg, result |-> result]
    /\ UNCHANGED <<resVars, busVars, lootGen, lootVars, msgVars, dataVars, now>>

SpawnNPC ==
    \E npcKey \in NPCKeys, modelOk \in BOOLEAN :
        /\ nextNPCId <= MaxNPCId
        /\ now <= CreateUntil
        /\ NpcCall(spawnNPC(NpcState, npcKey, modelOk), "spawnNPC", 0, Some(npcKey),
                   spawnNPCResult(NpcState, npcKey, modelOk))

DespawnNPC ==
    \E npcId \in 1..nextNPCId :
        /\ now <= CreateUntil
        /\ NpcCall(despawnNPC(NpcState, npcId), "despawnNPC", npcId, Undefined,
                   Some(npcId \in DOMAIN spawnedNPCs))

\* a damageNPC call that kills returns only after the task.wait
DamageNPC ==
    \E npcId \in 1..nextNPCId, damage \in Damages :
        LET st == damageNPC(NpcState, npcId, damage, now)
        IN  /\ now <= CreateUntil
            /\ \A id \in DOMAIN st.spawned : st.spawned[id].health <= HealthCap
            /\ NpcCall(st, "damageNPC", npcId, Some(damage),
                       IF ~damageNPCAccepted(NpcState, npcId) THEN Some(FALSE)
                       ELSE IF npcId \in DOMAIN st.deaths THEN Undefined
                       ELSE Some(TRUE))

\* the task.wait of a death handler ends: the NPC is despawned and the
\* damageNPC call returns
FinishNPCDeath ==
    \E npcId \in DOMAIN npcDeaths :
        /\ npcDeaths[npcId] = now
        /\ NpcCall(finishNPCDeath(NpcState, npcId), "handleNPCDeath", npcId,
                   Some(npcId \in DOMAIN spawnedNPCs), Some(TRUE))

NpcIdle == npcLast.op = "none"

InitNPC ==
    /\ spawnedNPCs = EmptyMap
    /\ npcModels = {}
    /\ nextNPCId = 1
    /\ npcDeaths = EmptyMap
    /\ npcLast = [op |-> "none", id |-> 0, arg |-> Undefined, result |-> Undefined]

(***************************************************************************)
(* PlayerDataService: the profiles.  loadPlayerData and savePlayerData are *)
(* async: each runs up to its await of GetAsync or SetAsync, and is        *)
(* resumed when the request returns or fails; other calls run in between.  *)
(* SetAsync takes the value it is given when it is called.  The name of    *)
(* the player is left out of the profile.                                  *)
(***************************************************************************)
ProfilePlayers == {1}

CurrencyTypes == {"gold", "tokens"}

Amounts == {-150, 100}

MaxDataRequests == 3

MaxDataTime == 2

CurrencyCap == 100

\* tick() is the Unix time: it is not 0 when the server starts
ServerStart == 1

tick == ServerStart + now

\* the key `Player_${player.UserId}`
DataKey(player) == <<"Player_", player>>

createDefaultProfileMutant(player, t) ==
    [playerId |-> player, level |-> 1, experience |-> 0,
     currency |-> EmptyMap,
     inventory |-> <<>>, settings |-> EmptyMap,
     lastLogin |-> t, totalPlayTime |-> 0]

createDefaultProfile(player, t) ==
    [playerId |-> player, level |-> 1, experience |-> 0,
     currency |-> MapSet(MapSet(EmptyMap, "gold", 100), "gems", 10),
     inventory |-> <<>>, settings |-> EmptyMap,
     lastLogin |-> t, totalPlayTime |-> 0]

DataState ==
    [inGame |-> playersInGame, store |-> dataStore, profiles |-> playerProfiles, starts |-> sessionStartTimes,
     pending |-> dataPending, requests |-> dataRequests]

\* a request to the DataStore, numbered in the order of the calls
Request(st, kind, player, value) ==
    [kind |-> kind, player |-> player, key |-> DataKey(player), value |-> value,
     n |-> st.requests.gets + st.requests.sets + 1]

\* loadPlayerData up to the await of GetAsync
loadPlayerData(st, player) ==
    [st EXCEPT !.pending = @ \cup {Request(st, "get", player, Undefined)},
               !.requests.gets = @ + 1]

\* the profile that loadPlayerData builds from what GetAsync returned
loadedProfileMutant(st, req, t) == createDefaultProfile(req.player, t)
loadedProfile(st, req, t) ==
    IF req.key \in DOMAIN st.store
    THEN [st.store[req.key] EXCEPT !.lastLogin = t]
    ELSE createDefaultProfile(req.player, t)

\* loadPlayerData after the await: GetAsync has returned, or has thrown
loadPlayerDataResult(st, req, fetched, t) ==
    IF fetched THEN Some(loadedProfile(st, req, t)) ELSE Undefined

finishLoadMutant(st, req, fetched, t) ==
    [st EXCEPT !.profiles = MapSet(@, req.player, loadedProfile(st, req, t)),
               !.starts = MapSet(@, req.player, t),
               !.pending = @ \ {req}]

finishLoad(st, req, fetched, t) ==
    IF ~fetched
    THEN [st EXCEPT !.pending = @ \ {req}]
    ELSE [st EXCEPT !.profiles = MapSet(@, req.player, loadedProfile(st, req, t)),
                    !.starts = MapSet(@, req.player, t),
                    !.pending = @ \ {req}]

\* updatePlayTime(player) at the time t; a sessionStart of 0 counts as none
updatePlayTimeMutant(st, player, t) ==
    IF /\ player \in DOMAIN st.profiles
       /\ player \in DOMAIN st.starts
       /\ st.starts[player] # 0
    THEN [st EXCEPT !.profiles[player].totalPlayTime = @ + (t - st.starts[player])]
    ELSE st

updatePlayTime(st, player, t) ==
    IF /\ player \in DOMAIN st.profiles
       /\ player \in DOMAIN st.starts
       /\ st.starts[player] # 0
    THEN [st EXCEPT !.profiles[player].totalPlayTime = @ + (t - st.starts[player]),
                    !.starts[player] = t]
    ELSE st

\* savePlayerData up to the await of SetAsync, or up to its early return
savePlayerData(st, player, t) ==
    IF player \notin DOMAIN st.profiles
    THEN st
    ELSE LET rolled == updatePlayTime(st, player, t)
         IN  [rolled EXCEPT
                 !.pending = @ \cup {Request(st, "set", player, rolled.profiles[player])},
                 !.requests.sets = @ + 1]

\* savePlayerData after the await: SetAsync has written, or has thrown
finishSaveMutant(st, req, written) ==
    [st EXCEPT !.store = MapSet(@, req.key, req.value), !.pending = @ \ {req}]

finishSave(st, req, written) ==
    IF written
    THEN [st EXCEPT !.store = MapSet(@, req.key, req.value), !.pending = @ \ {req}]
    ELSE [st EXCEPT !.pending = @ \ {req}]

\* modifyPlayerCurrency(player, currencyType, amount)
modifyPlayerCurrencyMutant(st, player, currencyType, amount) ==
    IF player \notin DOMAIN st.profiles
    THEN st
    ELSE LET currency == st.profiles[player].currency
             held == IF currencyType \in DOMAIN currency THEN currency[currencyType] ELSE 0
         IN  [st EXCEPT !.profiles[player].currency = MapSet(@, currencyType, held + amount)]

modifyPlayerCurrency(st, player, currencyType, amount) ==
    IF player \notin DOMAIN st.profiles
    THEN st
    ELSE LET currency == st.profiles[player].currency
             held == IF currencyType \in DOMAIN currency THEN currency[currencyType] ELSE 0
         IN  [st EXCEPT !.profiles[player].currency =
                            MapSet(@, currencyType, MathMax(0, held + amount))]

\* the handler of Players.PlayerRemoving: savePlayerData up to its await,
\* then the profile and the session start are deleted
playerRemoving(st, player, t) ==
    [savePlayerData(st, player, t) EXCEPT !.inGame = @ \ {player},
                                         !.profiles = MapDelete(@, player),
                                         !.starts = MapDelete(@, player)]

\* the handler of Players.PlayerAdded: loadPlayerData up to its await
playerAdded(st, player) ==
    [loadPlayerData(st, player) EXCEPT !.inGame = @ \cup {player}]

DataCall(st, op, player, ok, result) ==
    /\ playersInGame' = st.inGame
    /\ dataStore' = st.store
    /\ playerProfiles' = st.profiles
    /\ sessionStartTimes' = st.starts
    /\ dataPending' = st.pending
    /\ dataRequests' = st.requests
    /\ dataLast' = [op |-> op, player |-> player, ok |-> ok, result |-> result]
    /\ UNCHANGED <<resVars, busVars, lootGen, lootVars, msgVars, npcVars, now>>

RequestsLeft == dataRequests.gets + dataRequests.sets < MaxDataRequests

\* a player joins
PlayerAdded ==
    \E player \in ProfilePlayers \ playersInGame :
        /\ RequestsLeft
        /\ DataCall(playerAdded(DataState, player), "PlayerAdded", player, TRUE, Undefined)

\* loadPlayerData(player) for a player in the game
LoadPlayerData ==
    \E player \in playersInGame :
        /\ RequestsLeft
        /\ DataCall(loadPlayerData(DataState, player), "loadPlayerData.await", player, TRUE, Undefined)

\* GetAsync returns what the store holds, or throws
FinishLoad ==
    \E req \in dataPending, fetched \in BOOLEAN :
        /\ req.kind = "get"
        /\ DataCall(finishLoad(DataState, req, fetched, tick), "loadPlayerData", req.player,
                    fetched, loadPlayerDataResult(DataState, req, fetched, tick))

SavePlayerData ==
    \E player \in playersInGame :
        /\ RequestsLeft
        /\ IF player \in DOMAIN playerProfiles
              THEN DataCall(savePlayerData(DataState, player, tick), "savePlayerData.await",
                            player, TRUE, Undefined)
              ELSE DataCall(savePlayerData(DataState, player, tick), "savePlayerData",
                            player, TRUE, Some(FALSE))

\* SetAsync writes, or throws
FinishSave ==
    \E req \in dataPending, written \in BOOLEAN :
        /\ req.kind = "set"
        /\ DataCall(finishSave(DataState, req, written), "savePlayerData", req.player,
                    written, Some(written))

ModifyPlayerCurrency ==
    \E player \in ProfilePlayers, currencyType \in CurrencyTypes, amount \in Amounts :
        LET st == modifyPlayerCurrency(DataState, player, currencyType, amount)
        IN  /\ \A p \in DOMAIN st.profiles : \A c \in DOMAIN st.profiles[p].currency :
                  st.profiles[p].currency[c] <= CurrencyCap
            /\ DataCall(st, "modifyPlayerCurrency", player, TRUE,
                        Some(player \in DOMAIN playerProfiles))

\* a player leaves
PlayerRemoving ==
    \E player \in playersInGame :
        /\ RequestsLeft \/ player \notin DOMAIN playerProfiles
        /\ DataCall(playerRemoving(DataState, player, tick), "PlayerRemoving", player, TRUE, Undefined)

\* time passes
ClockTick ==
    /\ now < MaxDataTime
    /\ now' = now + 1
    /\ UNCHANGED <<resVars, busVars, lootGen, lootVars, msgVars, actorVars>>

InitData ==
    /\ playersInGame = {}
    /\ dataStore = EmptyMap
    /\ playerProfiles = EmptyMap
    /\ sessionStartTimes = EmptyMap
    /\ dataPending = {}
    /\ dataRequests = [gets |-> 0, sets |-> 0]
    /\ dataLast = [op |-> "none", player |-> 0, ok |-> TRUE, result |-> Undefined]

InitActors == InitNPC /\ InitData

Init ==
    /\ InitServices
    /\ InitLootGen
    /\ InitStores
    /\ InitActors

NextResource ==
    \/ InitializePlayer
    \/ SetResource
    \/ ModifyResource
    \/ SetMaxResource
    \/ ConsumeResource
    \/ RestoreResource
    \/ CleanupPlayer

SpecResource == Init /\ [][NextResource]_vars

NextBus ==
    \/ On
    \/ Off
    \/ Fire

SpecBus == Init /\ [][NextBus]_vars

\* The history under a long run of numbered fires.
NextHistory ==
    \/ FireSerial
    \/ ClearHistory

SpecHistory == Init /\ [][NextHistory]_vars

\* generateLootFromTable on every table and multiplier of the inputs
InitLootTable ==
    /\ InitServices
    /\ InitStores
    /\ InitActors
    /\ \E lootTable \in LootTables, multiplier \in Multipliers :
          lootGen = Pending(lootTable, multiplier)

NextLootTable == GenerateLoot

SpecLootTable == InitLootTable /\ [][NextLootTable]_vars

\* The drops and the messages under the clock.  The two services share
\* nothing but the clock: a run calls one of them, while the cleanup loops of
\* both run.
NextStores ==
    \/ MessagesIdle /\ DropLoot
    \/ MessagesIdle /\ CollectLoot
    \/ CleanupExpiredLoot
    \/ LootIdle /\ SendMessageToPlayer
    \/ LootIdle /\ BroadcastMessage
    \/ LootIdle /\ CancelMessage
    \/ LootIdle /\ ClearPlayerMessageHistory
    \/ LootIdle /\ MessageCleanupPlayer
    \/ CleanupExpiredMessages
    \/ Tick

SpecStores == Init /\ [][NextStores]_vars

\* The same under the scheduling of the server: time passes and a cleanup
\* loop whose task.wait has ended is resumed.
SpecStoresFair ==
    /\ SpecStores
    /\ WF_vars(Tick)
    /\ WF_vars(CleanupExpiredLoot)
    /\ WF_vars(CleanupExpiredMessages)

\* The drops and the messages read and collected under the clock, between
\* the cleanups as well as at them.
NextExpiry ==
    \/ MessagesIdle /\ DropLoot
    \/ MessagesIdle /\ CollectLoot
    \/ MessagesIdle /\ GetActiveLootDrops
    \/ MessagesIdle /\ GetLootNearPosition
    \/ CleanupExpiredLoot
    \/ LootIdle /\ SendMessageToPlayer
    \/ LootIdle /\ GetMessage
    \/ CleanupExpiredMessages
    \/ Tick
    \/ TickToExpiry

SpecExpiry == Init /\ [][NextExpiry]_vars

\* The profiles of the players under the clock, with a DataStore whose
\* requests return in any order and may fail.
NextProfiles ==
    \/ PlayerAdded
    \/ LoadPlayerData
    \/ FinishLoad
    \/ SavePlayerData
    \/ FinishSave
    \/ ModifyPlayerCurrency
    \/ PlayerRemoving
    \/ ClockTick

SpecProfiles == Init /\ [][NextProfiles]_vars

\* The NPCs under the clock, next to the loot cleanup loop, up to the end of
\* the last death wait that can begin; the message cleanup loop wakes later.
NpcClockEnd == CreateUntil + NPC_DESPAWN_DELAY

NpcTick == now < NpcClockEnd /\ Tick

NextNPC ==
    \/ SpawnNPC
    \/ DespawnNPC
    \/ DamageNPC
    \/ FinishNPCDeath
    \/ CleanupExpiredLoot
    \/ NpcTick

SpecNPC == Init /\ [][NextNPC]_vars

\* The same under the scheduling of the server: time passes and a thread
\* whose task.wait has ended is resumed.
SpecNPCFair ==
    /\ SpecNPC
    /\ WF_vars(NpcTick)
    /\ WF_vars(FinishNPCDeath)
    /\ WF_vars(CleanupExpiredLoot)

\* The lookups of the four services that keep a map by id.  The services
\* share no state: a run calls one of them, at the start of the server.
ResourceIdle == resLast.op = "none"

NextLookups ==
    \/ LootIdle /\ MessagesIdle /\ NpcIdle /\ InitializePlayer
    \/ LootIdle /\ MessagesIdle /\ NpcIdle /\ CleanupPlayer
    \/ LootIdle /\ MessagesIdle /\ NpcIdle /\ GetResource
    \/ LootIdle /\ MessagesIdle /\ NpcIdle /\ SetResource
    \/ LootIdle /\ MessagesIdle /\ NpcIdle /\ ModifyResource
    \/ LootIdle /\ MessagesIdle /\ NpcIdle /\ ConsumeResource
    \/ LootIdle /\ MessagesIdle /\ NpcIdle /\ RestoreResource
    \/ ResourceIdle /\ MessagesIdle /\ NpcIdle /\ DropLoot
    \/ ResourceIdle /\ MessagesIdle /\ NpcIdle /\ GenerateLootOf
    \/ ResourceIdle /\ MessagesIdle /\ NpcIdle /\ CollectLoot
    \/ ResourceIdle /\ LootIdle /\ NpcIdle /\ SendMessageToPlayer
    \/ ResourceIdle /\ LootIdle /\ NpcIdle /\ GetMessage
    \/ ResourceIdle /\ LootIdle /\ MessagesIdle /\ SpawnNPC
    \/ ResourceIdle /\ LootIdle /\ MessagesIdle /\ DespawnNPC
    \/ ResourceIdle /\ LootIdle /\ MessagesIdle /\ DamageNPC

SpecLookups == Init /\ [][NextLookups]_vars

\* A sender that overruns the history of a recipient.
NextMessageHistory ==
    \/ SendMessageToPlayerWhen(ManySends)
    \/ SendMessageToPlayersWhen(VariedSends)
    \/ BroadcastMessageWhen(VariedSends)
    \/ SendSystemNotificationWhen(VariedSends)

SpecMessageHistory == Init /\ [][NextMessageHistory]_vars

\* The drops and the NPCs under the clock: the two stores that hand out ids
\* from a counter.  They share nothing but the clock: a run calls one of them.
NextEntities ==
    \/ NpcIdle /\ DropLoot
    \/ NpcIdle /\ CollectLoot
    \/ CleanupExpiredLoot
    \/ CleanupExpiredMessages
    \/ LootIdle /\ SpawnNPC
    \/ LootIdle /\ DespawnNPC
    \/ LootIdle /\ DamageNPC
    \/ FinishNPCDeath
    \/ Tick

SpecEntities == Init /\ [][NextEntities]_vars

\* The ledger of one player and one key, next to a bus on which callbacks
\* subscribe to "resourceChanged".
LedgerBusPlayers == {1}

LedgerBusTargets == {<<1, "Health">>}

SubscribeResourceChanged == OnAmong({"resourceChanged"}, {"a"})

NextLedgerBus ==
    \/ InitializeIn(LedgerBusPlayers)
    \/ SetResourceOn(LedgerBusTargets)
    \/ ModifyResourceOn(LedgerBusTargets)
    \/ SetMaxResourceOn(LedgerBusTargets)
    \/ ConsumeResourceOn(LedgerBusTargets)
    \/ RestoreResourceOn(LedgerBusTargets)
    \/ CleanupIn(LedgerBusPlayers)
    \/ SubscribeResourceChanged

SpecLedgerBus == Init /\ [][NextLedgerBus]_vars

(***************************************************************************)
(* Properties of ResourceService                                           *)
(***************************************************************************)
Mutators == {"set", "modify", "consume", "restore"}

\* the last call was a mutation that returned true
MutationDone == resLast.op \in Mutators /\ resLast.ok

\* the player of the last call had resource state when the call was made
WasTracked == resLast.player \in DOMAIN resLast.pre

CurrentNow == playerResources[resLast.player].resources[resLast.resourceKey]

MaxNow == playerResources[resLast.player].maxResources[resLast.resourceKey]

CurrentBefore == resLast.pre[resLast.player].resources[resLast.resourceKey]

MaxBefore == resLast.pre[resLast.player].maxResources[resLast.resourceKey]

\* how many notifications of a type the last call raised for a key
Raised(type, resourceKey) ==
    Cardinality({i \in 1..Len(resLast.events) :
                    /\ resLast.events[i].type = type
                    /\ resLast.events[i].resourceKey = resourceKey})

RaisedOfType(type) ==
    Cardinality({i \in 1..Len(resLast.events) : resLast.events[i].type = type})

\* C1: every resource key of every tracked player satisfies
\* 0 <= current <= max, whatever calls were made.
C1_CurrentWithinBounds ==
    \A p \in DOMAIN playerResources :
        \A k \in DOMAIN playerResources[p].resources :
            /\ 0 <= playerResources[p].resources[k]
            /\ playerResources[p].resources[k] <= playerResources[p].maxResources[k]

\* C2: a mutation raises resourceDepleted for its key exactly when it leaves
\* current = 0; it raises none for another key, and a call that returns
\* false raises nothing.
C2_DepletedIffZero ==
    /\ MutationDone =>
          /\ (CurrentNow = 0) <=> (Raised("resourceDepleted", resLast.resourceKey) >= 1)
          /\ (CurrentNow > 0) => (RaisedOfType("resourceDepleted") = 0)
          /\ RaisedOfType("resourceDepleted") = Raised("resourceDepleted", resLast.resourceKey)
    /\ (resLast.op \in Mutators /\ ~resLast.ok) => resLast.events = <<>>

C2_Witness ==
    /\ MutationDone
    /\ resLast.op = "consume"
    /\ CurrentBefore > 0
    /\ CurrentNow = 0
    /\ Raised("resourceDepleted", resLast.resourceKey) = 1

\* current / max <= 0.2, for max # 0 (the ratio is not a number for max = 0)
RatioAtMostFifth(current, max) ==
    IF max > 0 THEN 5 * current <= max ELSE 5 * current >= max

\* C3: every successful mutation whose result has current/max <= 0.2 raises
\* resourceLow exactly once, also when the ratio was already at or below 0.2
\* before the call; a mutation whose result is above 0.2 raises none.
C3_LowIsLevelTriggered ==
    (MutationDone /\ MaxNow # 0) =>
        /\ RatioAtMostFifth(CurrentNow, MaxNow) =>
              Raised("resourceLow", resLast.resourceKey) = 1
        /\ ~RatioAtMostFifth(CurrentNow, MaxNow) =>
              Raised("resourceLow", resLast.resourceKey) = 0
        /\ RaisedOfType("resourceLow") = Raised("resourceLow", resLast.resourceKey)

\* a mutation that starts and ends at or below 0.2 and raises resourceLow again
C3_Witness ==
    /\ MutationDone
    /\ MaxNow > 0
    /\ MaxBefore = MaxNow
    /\ CurrentBefore > 0
    /\ 5 * CurrentBefore <= MaxBefore
    /\ 5 * CurrentNow = MaxNow
    /\ Raised("resourceLow", resLast.resourceKey) = 1

\* the last step was a resource call (and not a repetition that changes nothing)
ResourceStep == resLast' # resLast

C5_ConsumeAnyAmount ==
    (resLast.op = "consume" /\ WasTracked) =>
        /\ resLast.arg <= CurrentBefore =>
              /\ resLast.ok
              /\ CurrentNow = CurrentBefore - resLast.arg
              /\ (resLast.arg = CurrentBefore) =>
                    /\ CurrentNow = 0
                    /\ Raised("resourceDepleted", resLast.resourceKey) = 1
        /\ resLast.arg > CurrentBefore =>
              /\ ~resLast.ok
              /\ playerResources = resLast.pre
              /\ resLast.events = <<>>

\* C5 (amended): the same, for 0 <= amount <= current.
C5_ConsumeNonNegative ==
    (resLast.op = "consume" /\ WasTracked) =>
        /\ (0 <= resLast.arg /\ resLast.arg <= CurrentBefore) =>
              /\ resLast.ok
              /\ CurrentNow = CurrentBefore - resLast.arg
              /\ MaxNow = MaxBefore
              /\ (resLast.arg = CurrentBefore) =>
                    /\ CurrentNow = 0
                    /\ Raised("resourceDepleted", resLast.resourceKey) = 1
        /\ resLast.arg > CurrentBefore =>
              /\ ~resLast.ok
              /\ playerResources = resLast.pre
              /\ resLast.events = <<>>

\* consume of exactly the current amount
C5_Witness ==
    /\ resLast.op = "consume"
    /\ WasTracked
    /\ resLast.arg > 0
    /\ resLast.arg = CurrentBefore
    /\ resLast.ok
    /\ CurrentNow = 0

\* C6: setMax(key, m) stores m as the max; a current above m is lowered to
\* exactly m, a current at or below m is left as it was.
C6_SetMaxLowersCurrent ==
    (resLast.op = "setMax" /\ WasTracked) =>
        /\ resLast.ok
        /\ MaxNow = resLast.arg
        /\ CurrentBefore > resLast.arg => CurrentNow = resLast.arg
        /\ CurrentBefore <= resLast.arg => CurrentNow = CurrentBefore

C6_Witness ==
    /\ resLast.op = "setMax"
    /\ WasTracked
    /\ CurrentBefore > resLast.arg
    /\ CurrentNow = resLast.arg
    /\ MaxNow = resLast.arg

\* C7: set(key, v) on an initialized player stores min(max(v, 0), max).
C7_SetStoresClampedValue ==
    (resLast.op = "set" /\ WasTracked) =>
        /\ resLast.ok
        /\ CurrentNow = MathMin(MathMax(resLast.arg, 0), MaxBefore)

\* C8: after cleanup(player) the player has no resource state: get and
\* getMax are undefined for every key, and the other players keep theirs;
\* set, setMax, modify, consume and restore on a player without state return
\* false and change nothing.
C8_CleanupRemovesPlayer ==
    /\ resLast.op = "cleanup" =>
          /\ \A k \in RESOURCE_KEYS :
                /\ getPlayerResource(playerResources, resLast.player, k) = Undefined
                /\ getPlayerMaxResource(playerResources, resLast.player, k) = Undefined
          /\ \A q \in Players \ {resLast.player} :
                /\ (q \in DOMAIN playerResources) <=> (q \in DOMAIN resLast.pre)
                /\ q \in DOMAIN playerResources => playerResources[q] = resLast.pre[q]
    /\ (resLast.op \in Mutators \cup {"setMax"} /\ ~WasTracked) =>
          /\ ~resLast.ok
          /\ resLast.events = <<>>
          /\ playerResources = resLast.pre

\* cleanup of a tracked player whose resources had been changed, while the
\* other player is tracked
C8_Witness ==
    /\ resLast.op = "cleanup"
    /\ WasTracked
    /\ resLast.pre[resLast.player].resources["Health"] # DefaultCurrent
    /\ \E q \in Players \ {resLast.player} :
          /\ q \in DOMAIN playerResources
          /\ playerResources[q].resources["Health"] # DefaultCurrent

(***************************************************************************)
(* Properties of EventService                                              *)
(***************************************************************************)
\* the listeners of the fired event when fire() was called
ListenersAtFire ==
    IF busLast.name \in DOMAIN busLast.pre THEN busLast.pre[busLast.name] ELSE <<>>

\* how often a callback occurs in a sequence of callbacks
Occurrences(callbacks, c) ==
    Cardinality({i \in 1..Len(callbacks) : callbacks[i] = c})

InvokedCallbacks == [i \in 1..Len(busLast.invoked) |-> busLast.invoked[i].callback]

\* C9: fire(name, data) invokes every callback subscribed to that event
\* once per subscription, in subscription order, with the data, and no
\* callback subscribed only to other events.
C9_FireInvokesAllInOrder ==
    busLast.op = "fire" =>
        /\ InvokedCallbacks = ListenersAtFire
        /\ \A i \in 1..Len(busLast.invoked) : busLast.invoked[i].data = busLast.data

\* C10: when a callback throws during fire, the error is caught: fire
\* returns normally and every callback subscribed to the event, before and
\* after the throwing one, is still invoked.
C10_FaultDoesNotStopDispatch ==
    (busLast.op = "fire" /\ busLast.caught >= 1) =>
        /\ busLast.returned
        /\ \A c \in Callbacks :
              Occurrences(InvokedCallbacks, c) = Occurrences(ListenersAtFire, c)

\* the event the last fire() published
FiredEvent == [name |-> busLast.name, data |-> busLast.data]

\* C11: the history never holds more than MAX_HISTORY events; a fire appends
\* its event at the end and, when the history was full, evicts exactly the
\* oldest one; the events held are consecutive publications in publish
\* order, ending with the newest.
C11_HistoryKeepsMostRecent ==
    /\ Len(eventHistory) <= MAX_HISTORY
    /\ \A i \in 1..(Len(eventHistory) - 1) :
          eventHistory[i + 1].data = eventHistory[i].data + 1
    /\ busLast.op = "fire" =>
          /\ eventHistory[Len(eventHistory)] = FiredEvent
          /\ Len(busLast.history) < MAX_HISTORY =>
                eventHistory = Append(busLast.history, FiredEvent)
          /\ Len(busLast.history) = MAX_HISTORY =>
                eventHistory = Append(Tail(busLast.history), FiredEvent)

\* a fire into a full history: the oldest event is gone, the second oldest
\* is now the first
C11_Witness ==
    /\ busLast.op = "fire"
    /\ Len(busLast.history) = MAX_HISTORY
    /\ Len(eventHistory) = MAX_HISTORY
    /\ eventHistory[1] = busLast.history[2]
    /\ eventHistory[MAX_HISTORY].data = busLast.history[MAX_HISTORY].data + 1

\* the last call was a fire on an event that had no subscriber
FiredWithoutSubscribers == busLast.op = "fire" /\ ListenersAtFire = <<>>

\* C12 as stated: a fire on an event without subscribers raises no fault,
\* invokes no callback and leaves the whole bus state, subscriptions and
\* history, as it was.
C12_FireWithoutSubscribersIsNoOp ==
    FiredWithoutSubscribers =>
        /\ busLast.returned
        /\ busLast.caught = 0
        /\ busLast.invoked = <<>>
        /\ eventListeners = busLast.pre
        /\ eventHistory = busLast.history

\* C12 amended: a fire on an event without subscribers raises no fault,
\* invokes no callback and leaves the subscriptions as they were; the event
\* is still recorded at the end of the history.
C12_FireWithoutSubscribersOnlyRecords ==
    FiredWithoutSubscribers =>
        /\ busLast.returned
        /\ busLast.caught = 0
        /\ busLast.invoked = <<>>
        /\ eventListeners = busLast.pre
        /\ eventHistory = Append(busLast.history, FiredEvent)

\* a fire on an event whose only callback was unsubscribed, while the other
\* event still has a subscriber
C12_Witness ==
    /\ FiredWithoutSubscribers
    /\ busLast.name \in DOMAIN busLast.pre
    /\ \E n \in DOMAIN busLast.pre : busLast.pre[n] # <<>>
    /\ eventHistory = Append(busLast.history, FiredEvent)

(***************************************************************************)
(* Properties of generateLootFromTable.  They are stated on the table, the *)
(* random draws and the returned list, with their own arithmetic.          *)
(***************************************************************************)
Generated == ~lootGen.pending /\ lootGen.rolled # <<>>

GenEntries == lootGen.table.entries
GenGuaranteed == lootGen.table.guaranteed

\* x is quantity * multiplier rounded down
IsFloorOfScaled(x, quantity) ==
    /\ 2 * x <= quantity * lootGen.multiplier
    /\ quantity * lootGen.multiplier < 2 * x + 2

Scaled(quantity) ==
    CHOOSE x \in 0..(quantity * lootGen.multiplier) : IsFloorOfScaled(x, quantity)

\* the entry selected by the r-th roll
RolledEntry(r) == GenEntries[lootGen.rolled[r].entry]

RollSelects(r, drop) ==
    /\ lootGen.rolled[r].entry # 0
    /\ RolledEntry(r).drop = drop

IsGuaranteed(drop) == \E g \in 1..Len(GenGuaranteed) : GenGuaranteed[g].drop = drop

\* the item is in the list when the r-th roll is made
PresentAtRoll(drop, r) ==
    IsGuaranteed(drop) \/ \E e \in 1..(r - 1) : RollSelects(e, drop)

\* the r-th roll selects an entry for the item and is not the roll of a
\* unique entry whose item is already in the list
RollCounts(r, drop) ==
    /\ RollSelects(r, drop)
    /\ ~(RolledEntry(r).unique /\ PresentAtRoll(drop, r))

\* the scaled quantities of the first n rolls that count for the item
RECURSIVE RolledQuantity(_, _)
RolledQuantity(drop, n) ==
    IF n = 0 THEN 0
    ELSE RolledQuantity(drop, n - 1)
            + (IF RollCounts(n, drop) THEN Scaled(lootGen.rolled[n].quantity) ELSE 0)

\* the scaled quantities of the first n guaranteed drops of the item
RECURSIVE GuaranteedQuantity(_, _)
GuaranteedQuantity(drop, n) ==
    IF n = 0 THEN 0
    ELSE GuaranteedQuantity(drop, n - 1)
            + (IF GenGuaranteed[n].drop = drop THEN Scaled(lootGen.granted[n]) ELSE 0)

\* the quantity of the item in the first n elements of the returned list
RECURSIVE ResultQuantity(_, _)
ResultQuantity(drop, n) ==
    IF n = 0 THEN 0
    ELSE ResultQuantity(drop, n - 1)
            + (IF lootGen.results[n].drop = drop THEN lootGen.results[n].quantity ELSE 0)

ItemQuantity(drop) == ResultQuantity(drop, Len(lootGen.results))

ItemCount(drop) ==
    Cardinality({i \in 1..Len(lootGen.results) : lootGen.results[i].drop = drop})

\* the returned quantity of an item is what its guaranteed drops and the
\* rolls that count for it granted
QuantityConserved(drop) ==
    ItemQuantity(drop) = GuaranteedQuantity(drop, Len(GenGuaranteed))
                            + RolledQuantity(drop, Len(lootGen.rolled))

FirstGuaranteedOf(g) ==
    \A h \in 1..(g - 1) : GenGuaranteed[h].drop # GenGuaranteed[g].drop

\* C13 as stated: the list starts with the guaranteed drops of the table, in
\* table order, each with the quantity drawn for it times the multiplier,
\* rounded down.
C13_GuaranteedFirstWithOwnQuantity ==
    Generated =>
        /\ Len(lootGen.results) >= Len(GenGuaranteed)
        /\ \A g \in 1..Len(GenGuaranteed) :
              /\ lootGen.results[g].drop = GenGuaranteed[g].drop
              /\ lootGen.results[g].quantity = Scaled(lootGen.granted[g])

\* C13 amended: the list starts with the guaranteed drops of the table, in
\* table order; the quantity of each is the quantity drawn for it times the
\* multiplier, rounded down, plus, for the first guaranteed drop of an item,
\* the scaled quantities of the rolls that selected a non-unique entry of
\* that item.
C13_GuaranteedFirstPlusMerges ==
    Generated =>
        /\ Len(lootGen.results) >= Len(GenGuaranteed)
        /\ \A g \in 1..Len(GenGuaranteed) :
              /\ lootGen.results[g].drop = GenGuaranteed[g].drop
              /\ lootGen.results[g].quantity =
                    Scaled(lootGen.granted[g])
                       + (IF FirstGuaranteedOf(g)
                             THEN RolledQuantity(GenGuaranteed[g].drop, Len(lootGen.rolled))
                             ELSE 0)

\* two guaranteed drops with quantities from a range and a roll merged into
\* the first of them
C13_Witness ==
    /\ Generated
    /\ Len(GenGuaranteed) = 2
    /\ Len(GenGuaranteed[1].quantity) = 2
    /\ GenGuaranteed[1].drop # GenGuaranteed[2].drop
    /\ \E r \in 1..Len(lootGen.rolled) :
          RollSelects(r, GenGuaranteed[1].drop) /\ ~RolledEntry(r).unique
    /\ lootGen.results[1].quantity > Scaled(lootGen.granted[1])
    /\ lootGen.results[2].quantity = Scaled(lootGen.granted[2])

SingleEntryTable ==
    /\ Len(GenEntries) = 1
    /\ GenEntries[1].weight = 1
    /\ lootGen.table.rolls = <<1, 1>>
    /\ GenGuaranteed = <<>>

\* C14: for a table with one entry of weight 1, rolls [1, 1] and no
\* guaranteed drop, the list has exactly one element; its drop is the
\* entry's and its quantity is q * multiplier rounded down, q being the
\* number or a value of the range of the entry.
C14_SingleEntryAlwaysReturned ==
    (Generated /\ SingleEntryTable) =>
        /\ Len(lootGen.results) = 1
        /\ lootGen.results[1].drop = GenEntries[1].drop
        /\ \E q \in GenEntries[1].quantity[1]..GenEntries[1].quantity[Len(GenEntries[1].quantity)] :
              IsFloorOfScaled(lootGen.results[1].quantity, q)

\* a range quantity and the multiplier 1.5: the draw 1 gives floor(1.5) = 1
C14_Witness ==
    /\ Generated
    /\ SingleEntryTable
    /\ GenEntries[1].quantity = <<1, 2>>
    /\ lootGen.multiplier = 3
    /\ lootGen.rolled[1].quantity = 1
    /\ lootGen.results = <<[drop |-> GenEntries[1].drop, quantity |-> 1]>>

HasUniqueEntry(drop) ==
    \E i \in 1..Len(GenEntries) : GenEntries[i].drop = drop /\ GenEntries[i].unique

HasPlainEntry(drop) ==
    \E i \in 1..Len(GenEntries) : GenEntries[i].drop = drop /\ ~GenEntries[i].unique

\* the scaled quantities of the single grants of an item: of its guaranteed
\* drops and of the rolls that selected an entry of it
Grants(drop) ==
    {Scaled(lootGen.granted[g]) : g \in {h \in 1..Len(GenGuaranteed) : GenGuaranteed[h].drop = drop}}
      \cup {Scaled(lootGen.rolled[r].quantity) : r \in {e \in 1..Len(lootGen.rolled) : RollSelects(e, drop)}}

\* C15 as stated: an item with a unique entry that is in the list has the
\* quantity of one grant, also when it is guaranteed or has another,
\* non-unique entry; a roll of a unique entry whose item is in the list
\* changes nothing.
C15_UniqueNeverAccumulates ==
    Generated =>
        \A drop \in Items :
            HasUniqueEntry(drop) =>
                /\ QuantityConserved(drop)
                /\ ItemCount(drop) >= 1 => ItemQuantity(drop) \in Grants(drop)

\* C15 amended: a roll of a unique entry whose item is in the list changes
\* nothing; an item with a unique entry, without a non-unique entry and
\* guaranteed at most once is in the list at most once, with the quantity of
\* one grant.
C15_UniqueRollDropped ==
    Generated =>
        \A drop \in Items :
            HasUniqueEntry(drop) =>
                /\ QuantityConserved(drop)
                /\ (/\ ~HasPlainEntry(drop)
                    /\ Cardinality({g \in 1..Len(GenGuaranteed) : GenGuaranteed[g].drop = drop}) <= 1)
                   => /\ ItemCount(drop) <= 1
                      /\ ItemCount(drop) = 1 => ItemQuantity(drop) \in Grants(drop)

\* a unique entry rolled twice: the second roll is dropped, the item is in
\* the list once with the quantity of the first roll
C15_Witness ==
    /\ Generated
    /\ Len(lootGen.rolled) = 2
    /\ \E drop \in Items :
          /\ ~IsGuaranteed(drop)
          /\ RollSelects(1, drop) /\ RollSelects(2, drop)
          /\ RolledEntry(2).unique
          /\ lootGen.rolled[2].quantity = 2
          /\ ItemCount(drop) = 1
          /\ ItemQuantity(drop) = Scaled(lootGen.rolled[1].quantity)

GuaranteedDistinct ==
    \A g, h \in 1..Len(GenGuaranteed) :
        GenGuaranteed[g].drop = GenGuaranteed[h].drop => g = h

\* C16: the quantity of a roll of a non-unique entry whose item is in the
\* list is added to the element of that item and no element is created, so
\* the quantity of every item is the sum of its grants that count, and a
\* table with distinct guaranteed items gives a list with distinct items.
C16_MergeIntoExisting ==
    Generated =>
        /\ \A drop \in Items : QuantityConserved(drop)
        /\ GuaranteedDistinct => \A drop \in Items : ItemCount(drop) <= 1
        /\ \A drop \in Items :
              ItemCount(drop) <=
                 Cardinality({g \in 1..Len(GenGuaranteed) : GenGuaranteed[g].drop = drop}) + 1

\* two rolls of a non-unique entry, merged into one element
C16_Witness ==
    /\ Generated
    /\ GenGuaranteed = <<>>
    /\ Len(lootGen.rolled) = 2
    /\ lootGen.rolled[1].entry = lootGen.rolled[2].entry
    /\ lootGen.rolled[1].entry # 0
    /\ ~RolledEntry(1).unique
    /\ Len(lootGen.results) = 1
    /\ lootGen.results[1].quantity =
          Scaled(lootGen.rolled[1].quantity) + Scaled(lootGen.rolled[2].quantity)
    /\ lootGen.results[1].quantity >= 2

\* C17: when the table has entries and all their weights are 0, no roll
\* selects an entry and the list holds the guaranteed drops only.
C17_ZeroWeightGuaranteedOnly ==
    (/\ Generated
     /\ GenEntries # <<>>
     /\ \A i \in 1..Len(GenEntries) : GenEntries[i].weight = 0)
    => /\ \A r \in 1..Len(lootGen.rolled) : lootGen.rolled[r].entry = 0
       /\ Len(lootGen.results) = Len(GenGuaranteed)

(***************************************************************************)
(* Properties of the drops and the queued messages.                        *)
(***************************************************************************)

\* C18: every drop in the world has a quantity above 0 and expires after it
\* was created.
C18_DropsArePositive ==
    \A id \in DOMAIN activeLootDrops :
        /\ activeLootDrops[id].quantity > 0
        /\ activeLootDrops[id].expiresAt > activeLootDrops[id].timestamp

\* the times at which the cleanups are probed: around the expiry of every
\* entry held
ProbeTimes ==
    UNION {{e - 1, e, e + 1} :
             e \in {activeLootDrops[id].expiresAt : id \in DOMAIN activeLootDrops}
                     \cup {messageQueue[id].expiresAt : id \in DOMAIN messageQueue}}

\* every entry expires its time to live after the time it was created at
StampedWithTimeToLive ==
    /\ \A id \in DOMAIN activeLootDrops :
          /\ activeLootDrops[id].timestamp <= now
          /\ activeLootDrops[id].expiresAt = activeLootDrops[id].timestamp + 60
    /\ \A id \in DOMAIN messageQueue :
          /\ messageQueue[id].timestamp <= now
          /\ messageQueue[id].expiresAt = messageQueue[id].timestamp + 300

\* a cleanup run at a probe time keeps every entry that expires later
CleanupSparesUnexpired ==
    \A t \in ProbeTimes :
        /\ \A id \in DOMAIN activeLootDrops :
              t < activeLootDrops[id].expiresAt =>
                 /\ id \in DOMAIN cleanupExpiredLoot(LootState, t).drops
                 /\ cleanupExpiredLoot(LootState, t).drops[id] = activeLootDrops[id]
        /\ \A id \in DOMAIN messageQueue :
              t < messageQueue[id].expiresAt =>
                 /\ id \in DOMAIN cleanupExpiredMessages(MessageState, t).queue
                 /\ cleanupExpiredMessages(MessageState, t).queue[id] = messageQueue[id]

\* the step is a collectLoot of the drop
LootCollectedNow(id) ==
    /\ lootLast'.op = "collectLoot"
    /\ lootLast'.id = id
    /\ lootSweepAt' = lootSweepAt

\* the step is a cancelMessage of the message or a cleanupPlayer of its
\* recipient
MessageRemovedNow(id) ==
    /\ msgSweepAt' = msgSweepAt
    /\ \/ msgLast'.op = "cancelMessage" /\ msgLast'.id = id
       \/ msgLast'.op = "cleanupPlayer" /\ messageQueue[id].recipientId = Some(msgLast'.player)

\* an entry leaves its store, or changes, only when it is removed by a call
\* or when its expiry time has come
KeptUntilExpiry ==
    /\ \A id \in DOMAIN activeLootDrops :
          (id \in DOMAIN activeLootDrops' /\ activeLootDrops'[id] = activeLootDrops[id])
             \/ LootCollectedNow(id)
             \/ now' >= activeLootDrops[id].expiresAt
    /\ \A id \in DOMAIN messageQueue :
          (id \in DOMAIN messageQueue' /\ messageQueue'[id] = messageQueue[id])
             \/ MessageRemovedNow(id)
             \/ now' >= messageQueue[id].expiresAt

\* C19: a drop (time to live 60) or a queued message (time to live 300)
\* created at T and not removed by a call is in its store, unchanged, at
\* every time before T plus its time to live: no step and no cleanup, at
\* whatever time it runs, removes an entry that expires later.
C19_RetrievableUntilExpiry ==
    /\ [](StampedWithTimeToLive /\ CleanupSparesUnexpired)
    /\ [][KeptUntilExpiry]_vars

\* the message cleanup at 300 has removed the message that expired at 300
\* and kept the one that expires at 305
C19_Witness ==
    /\ now = 300
    /\ msgLast.op = "cleanup"
    /\ msgLast.ids = {1}
    /\ DOMAIN messageQueue = {2}
    /\ messageQueue[2].expiresAt = 305

\* no entry has lived through a cleanup run at or after its expiry time, and
\* none is held more than one cleanup wait after its expiry time
RemovedByFirstCleanup ==
    /\ \A id \in DOMAIN activeLootDrops :
          /\ lootSweepAt > 10 => activeLootDrops[id].expiresAt > lootSweepAt - 10
          /\ now <= activeLootDrops[id].expiresAt + 10
    /\ \A id \in DOMAIN messageQueue :
          /\ msgSweepAt > 30 => messageQueue[id].expiresAt > msgSweepAt - 30
          /\ now <= messageQueue[id].expiresAt + 30

\* a cleanup run at a probe time removes every entry that has expired by then
CleanupRemovesExpired ==
    \A t \in ProbeTimes :
        /\ \A id \in DOMAIN activeLootDrops :
              t >= activeLootDrops[id].expiresAt =>
                 /\ id \notin DOMAIN cleanupExpiredLoot(LootState, t).drops
                 /\ id \notin cleanupExpiredLoot(LootState, t).models
        /\ \A id \in DOMAIN messageQueue :
              t >= messageQueue[id].expiresAt =>
                 id \notin DOMAIN cleanupExpiredMessages(MessageState, t).queue

\* C20: an entry is gone after the first cleanup that runs at or after its
\* expiry time, which is at most one cleanup wait (10 for drops, 30 for
\* messages) after it, and every entry created is removed in the end.
C20_RemovedWithinOneSweep ==
    /\ [](RemovedByFirstCleanup /\ CleanupRemovesExpired)
    /\ \A id \in 1..MaxLootId :
          (id \in DOMAIN activeLootDrops) ~> (id \notin DOMAIN activeLootDrops)
    /\ \A id \in 1..MaxMessageId :
          (id \in DOMAIN messageQueue) ~> (id \notin DOMAIN messageQueue)

\* the loot cleanup at 70 has removed a drop that expired at 65, five
\* seconds after its expiry time
C20_Witness ==
    /\ now = 70
    /\ lootSweepAt = 80
    /\ lootLast.op = "cleanup"
    /\ lootLast.ids = {2}
    /\ activeLootDrops = EmptyMap
    /\ lootModels = {}

\* the step is a call of collectLoot
CollectLootStep ==
    /\ lootLast'.op = "collectLoot"
    /\ lootLast' # lootLast \/ activeLootDrops' # activeLootDrops

\* the step is a call of cancelMessage
CancelMessageStep ==
    /\ msgLast'.op = "cancelMessage"
    /\ msgLast' # msgLast \/ messageQueue' # messageQueue

\* a collectLoot of a drop in the world returns it and removes it, with its
\* model; any other collectLoot returns undefined and changes nothing; the
\* same for cancelMessage, which returns true or false
RemovalByCall ==
    /\ CollectLootStep =>
          IF lootLast'.id \in DOMAIN activeLootDrops
             THEN /\ lootLast'.result = <<activeLootDrops[lootLast'.id]>>
                  /\ DOMAIN activeLootDrops' = DOMAIN activeLootDrops \ {lootLast'.id}
                  /\ \A id \in DOMAIN activeLootDrops' : activeLootDrops'[id] = activeLootDrops[id]
             ELSE /\ lootLast'.result = <<>>
                  /\ UNCHANGED <<activeLootDrops, lootModels, lootAnimations, nextLootId>>
    /\ CancelMessageStep =>
          IF msgLast'.id \in DOMAIN messageQueue
             THEN /\ msgLast'.result = <<TRUE>>
                  /\ DOMAIN messageQueue' = DOMAIN messageQueue \ {msgLast'.id}
                  /\ \A id \in DOMAIN messageQueue' : messageQueue'[id] = messageQueue[id]
             ELSE /\ msgLast'.result = <<FALSE>>
                  /\ UNCHANGED <<messageQueue, playerMessageHistory, nextMessageId>>

\* after a collectLoot or a cancelMessage the id is not in the store, also
\* later: ids are not handed out again
RemovedStaysRemoved ==
    /\ lootLast.op = "collectLoot" => lootLast.id \notin DOMAIN activeLootDrops
    /\ msgLast.op = "cancelMessage" => msgLast.id \notin DOMAIN messageQueue

\* C21: collectLoot(id) returns the drop and removes it when the id is in
\* the store, and returns undefined and changes nothing otherwise, so it
\* returns a drop at most once per id; cancelMessage(id) returns true when
\* it removes the message and false, changing nothing, otherwise.
C21_RemovalIsIdempotent ==
    /\ []RemovedStaysRemoved
    /\ [][RemovalByCall]_vars

\* a second collectLoot of a drop that was collected before any drop could
\* expire
C21_Witness ==
    /\ lootLast.op = "collectLoot"
    /\ lootLast.result = <<>>
    /\ lootLast.id < nextLootId
    /\ now < 60
    /\ DOMAIN activeLootDrops = (1..(nextLootId - 1)) \ {lootLast.id}
    /\ lootModels = DOMAIN activeLootDrops

\* the ids that a step adds to a store
NewLootIds == DOMAIN activeLootDrops' \ DOMAIN activeLootDrops

NewNPCIds == DOMAIN spawnedNPCs' \ DOMAIN spawnedNPCs

\* every id in a store was handed out by the counter of its store
IdsBelowCounter ==
    /\ \A id \in DOMAIN activeLootDrops : 1 <= id /\ id < nextLootId
    /\ \A id \in DOMAIN spawnedNPCs : 1 <= id /\ id < nextNPCId

\* a step hands out the ids from the counter on, one per entry created, and
\* the counter never goes back
IdsInCreationOrder ==
    /\ nextLootId' >= nextLootId
    /\ NewLootIds = nextLootId..(nextLootId' - 1)
    /\ \A id \in DOMAIN activeLootDrops' : activeLootDrops'[id].id = id
    /\ nextNPCId' >= nextNPCId
    /\ NewNPCIds = nextNPCId..(nextNPCId' - 1)
    /\ \A id \in DOMAIN spawnedNPCs' : spawnedNPCs'[id].id = id

\* C22: the ids of the loot store and of the NPC store are strictly
\* increasing in creation order and never reused: every id in a store is
\* below the counter of the store, the counter never decreases, and the
\* entries a step creates get exactly the ids from the counter on, so that a
\* new id is above every id handed out before, removed entries included.
C22_IdsNeverReused == []IdsBelowCounter /\ [][IdsInCreationOrder]_vars

\* a drop was created after the cleanup loop had removed the first one, and
\* got the next id
C22_Witness ==
    /\ lootLast.op = "dropLoot"
    /\ now = RecreateAt
    /\ nextLootId = 3
    /\ DOMAIN activeLootDrops = {2}
    /\ activeLootDrops[2].timestamp = RecreateAt

\* an NPC was spawned after the first one had died and been despawned, and
\* got the next id
C22_WitnessNPC ==
    /\ npcLast.op = "spawnNPC"
    /\ npcLast.result = Some(2)
    /\ DOMAIN spawnedNPCs = {2}
    /\ npcDeaths = EmptyMap
    /\ now = NPC_DESPAWN_DELAY

\* C23: every removal of a loot entry destroys its world representation: in
\* every reachable state the ids that have a Part in the folder LootDrops,
\* the ids that have an animation connection and the ids in the active loot
\* store are the same set.
C23_VisualsMatchStore ==
    /\ lootModels = DOMAIN activeLootDrops
    /\ lootAnimations = DOMAIN activeLootDrops

\* the cleanup loop has removed the first drop and left the second, which
\* keeps its Part and its connection
C23_Witness ==
    /\ lootLast.op = "cleanup"
    /\ lootLast.ids = {1}
    /\ DOMAIN activeLootDrops = {2}
    /\ lootModels = {2}
    /\ lootAnimations = {2}

\* the history of a player, empty when the player has none
HistoryOf(history, player) ==
    IF player \in DOMAIN history THEN history[player] ELSE <<>>

\* the newest MAX_HISTORY_PER_PLAYER elements of a sequence, in their order
NewestOf(seq) ==
    IF Len(seq) <= MAX_HISTORY_PER_PLAYER THEN seq
    ELSE SubSeq(seq, Len(seq) - MAX_HISTORY_PER_PLAYER + 1, Len(seq))

\* the ids from a to b, in ascending order
IdsFromTo(a, b) == [i \in 1..(b - a + 1) |-> a + i - 1]

\* every history holds at most MAX_HISTORY_PER_PLAYER messages, in send order
HistoriesBounded ==
    \A player \in DOMAIN playerMessageHistory :
        LET history == playerMessageHistory[player]
        IN  /\ Len(history) <= MAX_HISTORY_PER_PLAYER
            /\ \A i \in 1..(Len(history) - 1) : history[i] < history[i + 1]

\* the messages of a step that are added to the history of the player: those
\* sent to the player and the broadcasts made while the player is connected
AddedTo(player) ==
    SelectSeq(IdsFromTo(nextMessageId, nextMessageId' - 1),
              LAMBDA id : \E i \in 1..Len(HistoryOf(playerMessageHistory', player)) :
                              HistoryOf(playerMessageHistory', player)[i] = id)

\* a send appends to the history of its recipient and evicts from the front
\* what is over the capacity, and nothing else
SendEvictsOldest ==
    msgLast'.op \in {"sendMessageToPlayer", "sendMessageToPlayers",
                     "broadcastMessage", "sendSystemNotification"} =>
        \A player \in Recipients :
            /\ HistoryOf(playerMessageHistory', player) =
                  NewestOf(HistoryOf(playerMessageHistory, player) \o AddedTo(player))
            /\ \A id \in nextMessageId..(nextMessageId' - 1) :
                  messageQueue'[id].recipientId = Some(player) =>
                      \E i \in 1..Len(AddedTo(player)) : AddedTo(player)[i] = id

\* C24: after any sequence of sendMessageToPlayer, sendMessageToPlayers,
\* broadcastMessage and sendSystemNotification calls the history of every
\* recipient holds at most 50 messages, in send order; a message added to a
\* full history evicts exactly the oldest one and the other 49 keep their
\* order.
C24_HistoryKeepsNewestFifty == []HistoriesBounded /\ [][SendEvictsOldest]_vars

\* the 51st message of a recipient has been added: the first one is gone,
\* the other 49 have moved up and the new one is last
C24_Witness ==
    /\ msgLast.op = "sendSystemNotification"
    /\ msgLast.id = MAX_HISTORY_PER_PLAYER + 1
    /\ playerMessageHistory[1] = IdsFromTo(2, MAX_HISTORY_PER_PLAYER + 1)

\* a cancelMessage call or a run of the cleanup loop removes from the queue
\* only: no history changes, no message is added or altered
QueueRemovalKeepsHistory ==
    msgLast'.op \in {"cancelMessage", "cleanup"} =>
        /\ playerMessageHistory' = playerMessageHistory
        /\ DOMAIN messageQueue' \subseteq DOMAIN messageQueue
        /\ \A id \in DOMAIN messageQueue' : messageQueue'[id] = messageQueue[id]

\* the message removed by the last cancelMessage call or by the last run of
\* the cleanup loop is gone from the queue
RemovedFromQueueOnly ==
    msgLast.op \in {"cancelMessage", "cleanup"} =>
        \A id \in msgLast.ids : id \notin DOMAIN messageQueue

\* C25: cancelMessage and the expiry sweep remove entries from the queue only
\* and leave the history of every recipient unchanged, so that a cancelled
\* or expired message is still in the history of its recipient.
C25_HistoryIndependentOfQueue ==
    []RemovedFromQueueOnly /\ [][QueueRemovalKeepsHistory]_vars

\* the cleanup loop has removed the two messages sent to the player, both
\* expired, and the history of the player still holds them
C25_Witness ==
    /\ msgLast.op = "cleanup"
    /\ msgLast.ids = {1, 2}
    /\ messageQueue = EmptyMap
    /\ playerMessageHistory = MapSet(EmptyMap, 1, <<1, 2>>)

\* the GetAsync request that a step returns from, if any
LoadReturned == {req \in dataPending \ dataPending' : req.kind = "get"}

\* the SetAsync request that a step returns from, if any
SaveReturned == {req \in dataPending \ dataPending' : req.kind = "set"}

\* the profile of a new player: level 1, no experience, the starting
\* currency, nothing else
IsDefaultProfile(profile, player) ==
    /\ profile.playerId = player
    /\ profile.level = 1
    /\ profile.experience = 0
    /\ DOMAIN profile.currency = {"gold", "gems"}
    /\ profile.currency["gold"] = 100
    /\ profile.currency["gems"] = 10
    /\ profile.inventory = <<>>
    /\ profile.settings = EmptyMap
    /\ profile.totalPlayTime = 0

\* a load that finds no record returns the default profile, caches it and
\* records the session start; no step of a load writes to the DataStore
LoadOfNewPlayer ==
    /\ \A req \in LoadReturned :
          (dataLast'.ok /\ req.key \notin DOMAIN dataStore) =>
              /\ dataLast'.result # Undefined
              /\ IsDefaultProfile(dataLast'.result[1], req.player)
              /\ req.player \in DOMAIN playerProfiles'
              /\ playerProfiles'[req.player] = dataLast'.result[1]
              /\ req.player \in DOMAIN sessionStartTimes'
              /\ sessionStartTimes'[req.player] = tick
    /\ (LoadReturned # {} \/ dataRequests'.gets # dataRequests.gets) =>
          /\ dataStore' = dataStore
          /\ dataRequests'.sets = dataRequests.sets
          /\ {req \in dataPending' : req.kind = "set"} = {req \in dataPending : req.kind = "set"}

\* C26: load(playerId) when persistence holds no record under
\* "Player_<playerId>" returns a default profile with level 1, experience 0,
\* the starting currency, empty inventory and settings and totalPlayTime 0,
\* caches it and records a session-start time; it writes nothing to
\* persistence.
C26_LoadOfNewPlayerDefaults == [][LoadOfNewPlayer]_vars

\* a load has returned the default profile while the DataStore is empty and
\* no SetAsync was ever requested
C26_Witness ==
    /\ dataLast.op = "loadPlayerData"
    /\ dataLast.ok
    /\ dataStore = EmptyMap
    /\ dataRequests.sets = 0
    /\ now > 0
    /\ playerProfiles = MapSet(EmptyMap, 1, createDefaultProfile(1, tick))
    /\ sessionStartTimes = MapSet(EmptyMap, 1, tick)

\* a load whose fetch fails returns nothing and leaves the cache and the
\* session starts as they are, at its call and at its return; a load whose
\* fetch succeeds returns a profile
FailedLoadChangesNothing ==
    /\ dataRequests'.gets # dataRequests.gets =>
          /\ playerProfiles' = playerProfiles
          /\ sessionStartTimes' = sessionStartTimes
    /\ \A req \in LoadReturned :
          IF dataLast'.ok
          THEN dataLast'.result # Undefined
          ELSE /\ dataLast'.result = Undefined
               /\ playerProfiles' = playerProfiles
               /\ sessionStartTimes' = sessionStartTimes
               /\ dataStore' = dataStore

\* C27: when the persistence fetch fails, load returns an absent result and
\* substitutes no default: the profile cache and the session-start map are
\* left as they were before the call, so that a failed fetch can be told
\* from a new player.
C27_FailedLoadReturnsAbsent == [][FailedLoadChangesNothing]_vars

\* the fetch of the only load failed: nothing is returned, nothing is cached
C27_Witness ==
    /\ dataLast.op = "loadPlayerData"
    /\ ~dataLast.ok
    /\ dataLast.result = Undefined
    /\ dataRequests = [gets |-> 1, sets |-> 0]
    /\ playerProfiles = EmptyMap
    /\ sessionStartTimes = EmptyMap

\* the SetAsync requests that a step makes
SaveRequested == {req \in dataPending' \ dataPending : req.kind = "set"}

\* what a profile holds apart from the play time, lastLogin included
ProfileValues(profile) ==
    [playerId |-> profile.playerId, level |-> profile.level,
     experience |-> profile.experience, currency |-> profile.currency,
     inventory |-> profile.inventory, settings |-> profile.settings,
     lastLogin |-> profile.lastLogin]

\* a save hands the cached profile to SetAsync, a successful SetAsync stores
\* what it was handed, and a load that finds a record returns and caches
\* that record with lastLogin set to the time of the load
SavedValuesComeBack ==
    /\ \A req \in SaveRequested :
          /\ req.player \in DOMAIN playerProfiles
          /\ req.key = DataKey(req.player)
          /\ ProfileValues(req.value) = ProfileValues(playerProfiles[req.player])
    /\ \A req \in SaveReturned :
          dataLast'.ok => dataStore' = MapSet(dataStore, req.key, req.value)
    /\ \A req \in LoadReturned :
          (dataLast'.ok /\ req.key \in DOMAIN dataStore) =>
              /\ dataLast'.result = Some([dataStore[req.key] EXCEPT !.lastLogin = tick])
              /\ playerProfiles' = MapSet(playerProfiles, req.player, dataLast'.result[1])
              /\ dataStore' = dataStore

\* C28: round trip: after a load against empty persistence, mutations of the
\* cached profile and a successful save, a following load returns the saved
\* level, experience, currency, inventory, settings and totalPlayTime, with
\* only lastLogin refreshed, and not a fresh default.
C28_SaveLoadRoundTrip == [][SavedValuesComeBack]_vars

\* a new player spent the gold and was saved after one second; the next
\* load returns the spent gold and the second played, with a later lastLogin
C28_Witness ==
    /\ dataLast.op = "loadPlayerData"
    /\ dataLast.ok
    /\ dataRequests = [gets |-> 2, sets |-> 1]
    /\ dataLast.result # Undefined
    /\ dataLast.result[1].currency["gold"] = 0
    /\ dataLast.result[1].totalPlayTime = 1
    /\ DataKey(1) \in DOMAIN dataStore
    /\ dataLast.result[1].lastLogin > dataStore[DataKey(1)].lastLogin
    /\ playerProfiles = MapSet(EmptyMap, 1, dataLast.result[1])

\* every cached profile has a session start, taken at or before the present
SessionStartsKept ==
    /\ DOMAIN sessionStartTimes = DOMAIN playerProfiles
    /\ \A player \in DOMAIN sessionStartTimes :
          /\ sessionStartTimes[player] <= tick
          /\ sessionStartTimes[player] >= ServerStart

\* a save hands to SetAsync the play time plus the time since the session
\* start, and leaves that sum in the cache with the session start at the
\* present; nothing else lowers the play time of a cached profile but a load
PlayTimeRolledIn ==
    /\ \A req \in SaveRequested :
          /\ req.value.totalPlayTime =
                playerProfiles[req.player].totalPlayTime
                    + (tick - sessionStartTimes[req.player])
          /\ req.value.totalPlayTime >= playerProfiles[req.player].totalPlayTime
          /\ req.player \in DOMAIN playerProfiles' =>
                /\ playerProfiles'[req.player] = req.value
                /\ sessionStartTimes'[req.player] = tick
    /\ \A player \in DOMAIN playerProfiles \cap DOMAIN playerProfiles' :
          (LoadReturned = {}) =>
              playerProfiles'[player].totalPlayTime >= playerProfiles[player].totalPlayTime
    /\ (SaveRequested = {} /\ LoadReturned = {}) =>
          \A player \in DOMAIN playerProfiles \cap DOMAIN playerProfiles' :
              /\ playerProfiles'[player].totalPlayTime = playerProfiles[player].totalPlayTime
              /\ sessionStartTimes'[player] = sessionStartTimes[player]

\* C29: each save adds the time elapsed since the session-start reading to
\* totalPlayTime and resets that reading to the present before writing:
\* over the saves of a session totalPlayTime never decreases, no interval is
\* counted twice, and the record handed to the write contains the rolled-in
\* time.
C29_PlayTimeRolledInOnce == []SessionStartsKept /\ [][PlayTimeRolledIn]_vars

\* the second save of a session, one second after the first, which was one
\* second after the load: two seconds played, and a write of two seconds
C29_Witness ==
    /\ dataLast.op = "savePlayerData.await"
    /\ dataRequests = [gets |-> 1, sets |-> 2]
    /\ now = 2
    /\ playerProfiles[1].totalPlayTime = 2
    /\ sessionStartTimes[1] = tick
    /\ \E req \in dataPending : req.kind = "set" /\ req.value.totalPlayTime = 2
    /\ DataKey(1) \in DOMAIN dataStore
    /\ dataStore[DataKey(1)].totalPlayTime = 1

\* a save makes one SetAsync request, or none when no profile is cached, and
\* a failed SetAsync only ends the save: it returns false, with the record
\* in the DataStore, the cache and the requests as they were
FailedSaveOnlyReturnsFalse ==
    /\ Cardinality(SaveRequested) <= 1
    /\ dataRequests'.sets = dataRequests.sets + Cardinality(SaveRequested)
    /\ \A req \in SaveReturned :
          IF dataLast'.ok
          THEN dataLast'.result = Some(TRUE)
          ELSE /\ dataLast'.result = Some(FALSE)
               /\ dataStore' = dataStore
               /\ playerProfiles' = playerProfiles
               /\ sessionStartTimes' = sessionStartTimes
               /\ dataRequests' = dataRequests
               /\ dataPending' = dataPending \ {req}
    /\ (dataLast'.op = "savePlayerData" /\ SaveReturned = {} /\ dataLast' # dataLast) =>
          /\ dataLast'.result = Some(FALSE)
          /\ dataLast'.player \notin DOMAIN playerProfiles
          /\ UNCHANGED <<dataStore, playerProfiles, sessionStartTimes, dataPending,
                         dataRequests>>

\* C30: when the persistence write fails, save returns false without raising
\* and without retrying: the persisted record keeps its previous content,
\* one write attempt was made and the cached profile stays in the cache;
\* save for a player with no cached profile returns false and attempts no
\* write.
C30_FailedSaveKeepsRecord == [][FailedSaveOnlyReturnsFalse]_vars

\* the second save of a session failed: the record of the first save is
\* still the one stored, the cache holds the newer profile, and two writes
\* were attempted in all
C30_Witness ==
    /\ dataLast.op = "savePlayerData"
    /\ ~dataLast.ok
    /\ dataLast.result = Some(FALSE)
    /\ dataRequests = [gets |-> 1, sets |-> 2]
    /\ dataPending = {}
    /\ DataKey(1) \in DOMAIN dataStore
    /\ 1 \in DOMAIN playerProfiles
    /\ dataStore[DataKey(1)].totalPlayTime < playerProfiles[1].totalPlayTime

\* the requests of a player that have not returned yet
PendingOf(player) == {req \in dataPending : req.player = player}

\* a player who has left and has no request in flight has no profile and no
\* session start in the cache
EvictedAfterLeave ==
    \A player \in ProfilePlayers :
        (player \notin playersInGame /\ PendingOf(player) = {}) =>
            /\ player \notin DOMAIN playerProfiles
            /\ player \notin DOMAIN sessionStartTimes

\* a leave hands the cached profile, if there is one, to SetAsync and evicts
\* it in the same step
SaveAttemptedOnLeave ==
    \A player \in playersInGame \ playersInGame' :
        /\ player \in DOMAIN playerProfiles =>
              \E req \in SaveRequested :
                  /\ req.player = player
                  /\ ProfileValues(req.value) = ProfileValues(playerProfiles[player])
        /\ player \notin DOMAIN playerProfiles'
        /\ player \notin DOMAIN sessionStartTimes'

\* C31: on player leave a save of the cached profile is attempted before the
\* profile and the session timer are evicted, and once every load and save
\* in flight for that player has completed the cache holds neither a profile
\* nor a session start for the player, for every interleaving of the leave
\* with a load or save that is still awaiting the DataStore.
C31_LeaveEvictsProfile == []EvictedAfterLeave /\ [][SaveAttemptedOnLeave]_vars

\* an NPC of health 0 is not alive
DeadAtZero ==
    \A id \in DOMAIN spawnedNPCs : spawnedNPCs[id].health = 0 => ~spawnedNPCs[id].isAlive

\* C32: every spawned NPC has 0 <= health <= maxHealth in every reachable
\* state, for every sequence of damageNPC calls, negative damage included,
\* and is not alive in any state where its health is 0.
C32_HealthWithinBounds ==
    /\ \A id \in DOMAIN spawnedNPCs :
          /\ 0 <= spawnedNPCs[id].health
          /\ spawnedNPCs[id].health <= spawnedNPCs[id].maxHealth
    /\ DeadAtZero

\* the NPCs that a step brings from alive to dead
KilledNPCs ==
    {id \in DOMAIN spawnedNPCs :
        /\ spawnedNPCs[id].isAlive
        /\ id \in DOMAIN spawnedNPCs'
        /\ ~spawnedNPCs'[id].isAlive}

\* the drops that a step adds to the loot store are the elements of the
\* generated loot, with the ids from the counter on
DropsCreatedFrom(results) ==
    /\ NewLootIds = nextLootId..(nextLootId + Len(results) - 1)
    /\ \A i \in 1..Len(results) :
          /\ activeLootDrops'[nextLootId + i - 1].itemId = results[i].drop
          /\ activeLootDrops'[nextLootId + i - 1].quantity = results[i].quantity

\* the step that kills an NPC with a loot table marks it dead, keeps it in
\* the store and creates the drops of one resolution of its table
DeathDropsLoot ==
    \A id \in KilledNPCs :
        LET meta == getNPCMeta(spawnedNPCs[id].npcKey)
        IN  (meta # Undefined /\ meta[1].lootTable # Undefined) =>
                /\ spawnedNPCs'[id].health = 0
                /\ getLootTable(meta[1].lootTable[1]) # Undefined
                /\ \E gen \in generateLootFromTable(getLootTable(meta[1].lootTable[1])[1], 2) :
                       DropsCreatedFrom(gen.results)

\* C33: when a damage call brings the health of an NPC with a loot table to
\* 0, the NPC is marked dead, its loot table is resolved through the loot
\* engine and the resulting list is created as drops in the loot store
\* before the NPC is removed.
C33_DeathDropsLoot == [][DeathDropsLoot]_vars

\* a dead NPC in the store has health 0 and a death handler waiting for it,
\* whose wait ends within the delay
DeadAwaitsDespawn ==
    /\ \A id \in DOMAIN spawnedNPCs :
          ~spawnedNPCs[id].isAlive =>
              /\ spawnedNPCs[id].health = 0
              /\ id \in DOMAIN npcDeaths
    /\ \A id \in DOMAIN npcDeaths :
          /\ now <= npcDeaths[id]
          /\ npcDeaths[id] <= now + NPC_DESPAWN_DELAY

\* a dead NPC leaves the store by an explicit despawn or by its deferred
\* despawn at the end of the delay; the deferred despawn takes that NPC and
\* nothing else, or nothing at all when the NPC is gone already, and the
\* damage call then returns true
DeferredDespawnOnly ==
    /\ \A id \in DOMAIN spawnedNPCs \ DOMAIN spawnedNPCs' :
          ~spawnedNPCs[id].isAlive =>
              \/ npcLast'.op = "despawnNPC" /\ npcLast'.id = id
              \/ /\ npcLast'.op = "handleNPCDeath"
                 /\ npcLast'.id = id
                 /\ now = npcDeaths[id]
    /\ \A id \in DOMAIN npcDeaths \ DOMAIN npcDeaths' :
          /\ npcLast'.op = "handleNPCDeath"
          /\ npcLast'.result = Some(TRUE)
          /\ DOMAIN spawnedNPCs' = DOMAIN spawnedNPCs \ {id}
          /\ npcModels' = npcModels \ {id}
          /\ \A other \in DOMAIN spawnedNPCs' : spawnedNPCs'[other] = spawnedNPCs[other]
          /\ nextNPCId' = nextNPCId

\* an NPC whose death is being handled is removed in the end
DespawnedInTheEnd ==
    \A id \in 1..MaxNPCId :
        (id \in DOMAIN npcDeaths) ~> (id \notin DOMAIN spawnedNPCs /\ id \notin DOMAIN npcDeaths)

\* C34: an NPC whose health has reached 0 stays in the store, marked dead,
\* during the delay and is removed in the end by the one-shot deferred
\* despawn; the deferred despawn removes only that NPC, and removes nothing
\* and raises no fault when the NPC was despawned explicitly during the
\* delay.
C34_DeferredDespawn ==
    /\ []DeadAwaitsDespawn
    /\ [][DeferredDespawnOnly]_vars
    /\ DespawnedInTheEnd

\* the deferred despawn has removed the dead NPC at the end of its delay and
\* left the other NPC, which is alive, in the store
C34_Witness ==
    /\ npcLast.op = "handleNPCDeath"
    /\ npcLast.id = 1
    /\ npcLast.arg = Some(TRUE)
    /\ DOMAIN spawnedNPCs = {2}
    /\ spawnedNPCs[2].isAlive
    /\ npcModels = {2}
    /\ npcDeaths = EmptyMap

\* the deferred despawn found the NPC gone, despawned during the delay
C34_WitnessGone ==
    /\ npcLast.op = "handleNPCDeath"
    /\ npcLast.arg = Some(FALSE)
    /\ npcLast.result = Some(TRUE)

\* no currency of a cached profile is negative
CurrencyNonNegative ==
    \A player \in DOMAIN playerProfiles :
        \A c \in DOMAIN playerProfiles[player].currency :
            playerProfiles[player].currency[c] >= 0

\* the balance of a currency, 0 when the profile does not hold it
Balance(profiles, player, c) ==
    IF c \in DOMAIN profiles[player].currency THEN profiles[player].currency[c] ELSE 0

\* modifyPlayerCurrency on a cached profile returns true and leaves the
\* balance plus the amount, or 0 when the debit is larger than the balance
DebitStopsAtZero ==
    (/\ dataLast' # dataLast
     /\ dataLast'.op = "modifyPlayerCurrency"
     /\ dataLast'.player \in DOMAIN playerProfiles) =>
        LET player == dataLast'.player
        IN  /\ dataLast'.result = Some(TRUE)
            /\ player \in DOMAIN playerProfiles'
            /\ \E c \in CurrencyTypes, amount \in Amounts :
                  /\ Balance(playerProfiles', player, c) =
                        IF Balance(playerProfiles, player, c) + amount < 0
                        THEN 0
                        ELSE Balance(playerProfiles, player, c) + amount
                  /\ \A other \in CurrencyTypes \ {c} :
                        Balance(playerProfiles', player, other) = Balance(playerProfiles, player, other)

\* C35: every currency value of a cached profile is >= 0 after any sequence
\* of modifyPlayerCurrency calls with positive and negative amounts; a debit
\* larger than the balance leaves the balance at 0 and the call returns true.
C35_CurrencyNeverNegative == []CurrencyNonNegative /\ [][DebitStopsAtZero]_vars

\* a debit of 150 has met the 100 gold of a default profile
C35_Witness ==
    /\ dataLast.op = "modifyPlayerCurrency"
    /\ dataLast.result = Some(TRUE)
    /\ dataLast.player \in DOMAIN playerProfiles
    /\ playerProfiles[dataLast.player].currency["gold"] = 0

\* a call on the resources of a player who has no state, a collectLoot or a
\* getMessage of an id that is in no map, a despawnNPC or damageNPC of an id
\* that is not spawned, a dropLoot or generateLoot of a key that names no
\* table: the call returns absent, false or the empty list and the maps and
\* the counters are as before
ResourceMiss ==
    (/\ resLast' # resLast
     /\ resLast'.op \in {"get", "set", "modify", "consume", "restore"}
     /\ resLast'.player \notin DOMAIN playerResources) =>
        /\ ~resLast'.ok
        /\ resLast'.events = <<>>
        /\ playerResources' = playerResources

LootMiss ==
    /\ (/\ lootLast' # lootLast
        /\ lootLast'.op = "collectLoot"
        /\ lootLast'.id \notin DOMAIN activeLootDrops) =>
           /\ lootLast'.result = Undefined
           /\ UNCHANGED <<activeLootDrops, lootModels, lootAnimations, nextLootId>>
    /\ (/\ lootLast' # lootLast
        /\ lootLast'.op \in {"dropLoot", "generateLoot"}
        /\ ~lootLast'.found) =>
           /\ lootLast'.ids = {}
           /\ lootLast'.op = "generateLoot" => lootLast'.result = Some(<<>>)
           /\ UNCHANGED <<activeLootDrops, lootModels, lootAnimations, nextLootId>>

MessageMiss ==
    (/\ msgLast' # msgLast
     /\ msgLast'.op = "getMessage"
     /\ msgLast'.id \notin DOMAIN messageQueue) =>
        /\ msgLast'.result = Undefined
        /\ UNCHANGED <<messageQueue, playerMessageHistory, nextMessageId>>

NPCMiss ==
    (/\ npcLast' # npcLast
     /\ npcLast'.op \in {"despawnNPC", "damageNPC"}
     /\ npcLast'.id \notin DOMAIN spawnedNPCs) =>
        /\ npcLast'.result = Some(FALSE)
        /\ UNCHANGED <<spawnedNPCs, npcModels, nextNPCId, npcDeaths>>

\* a key that names no table generates the empty list and nothing else
UnknownTableEmpty ==
    \A tableKey \in TableKeys, multiplier \in DropMultipliers :
        getLootTable(tableKey) = Undefined => generateLoot(tableKey, multiplier) = {<<>>}

\* C36: a lookup miss is returned as an absent or false result and changes
\* no state: the resource calls for a player without state, collectLoot and
\* getMessage for an unknown id, despawnNPC and damageNPC for an unknown NPC,
\* dropLoot and generateLoot for an unknown table key (empty list, no drop,
\* no loot id consumed).
C36_LookupMissChangesNothing ==
    /\ []UnknownTableEmpty
    /\ [][ResourceMiss /\ LootMiss /\ MessageMiss /\ NPCMiss]_vars

\* dropLoot of an unknown table key, after drops that took loot ids
C36_Witness ==
    /\ lootLast.op = "dropLoot"
    /\ ~lootLast.found
    /\ nextLootId > 1
    /\ activeLootDrops # EmptyMap

\* a resource call for a player without state while another player has one
C36_WitnessResource ==
    /\ resLast.op \in {"get", "set", "modify", "consume", "restore"}
    /\ resLast.player \notin DOMAIN resLast.pre
    /\ resLast.pre # EmptyMap

\* getMessage of an id that is not queued while a message is
C36_WitnessMessage ==
    /\ msgLast.op = "getMessage"
    /\ msgLast.result = Undefined
    /\ messageQueue # EmptyMap

\* damageNPC of an id that is not spawned while an NPC is
C36_WitnessNPC ==
    /\ npcLast.op = "damageNPC"
    /\ npcLast.id \notin DOMAIN spawnedNPCs
    /\ npcLast.result = Some(FALSE)
    /\ spawnedNPCs # EmptyMap

\* the listeners of the fired event when fire() returned
ListenersAfterFire ==
    IF busLast.name \in DOMAIN eventListeners THEN eventListeners[busLast.name] ELSE <<>>

\* C37: when a handler unsubscribes itself or another handler of the topic
\* while the publish is dispatching, every handler that was subscribed when
\* the publish started and has not been unsubscribed is invoked exactly once
\* for that publish, never skipped and never invoked twice.
C37_UnsubscribeDuringDispatch ==
    busLast.op = "fire" =>
        \A c \in Callbacks :
            Occurrences(ListenersAfterFire, c) = Occurrences(ListenersAtFire, c) =>
                Occurrences(InvokedCallbacks, c) = Occurrences(ListenersAtFire, c)

\* the drops and the messages whose expiry time has come
ExpiredDropsHeld == {id \in DOMAIN activeLootDrops : now >= activeLootDrops[id].expiresAt}

ExpiredMessagesHeld == {id \in DOMAIN messageQueue : now >= messageQueue[id].expiresAt}

\* a read returns what the map holds, expired or not: collectLoot and
\* getMessage the entry of the id, getActiveLootDrops every drop,
\* getLootNearPosition every drop within the radius
ReadsIgnoreExpiry ==
    /\ (lootLast' # lootLast /\ lootLast'.op = "collectLoot"
            /\ lootLast'.id \in DOMAIN activeLootDrops) =>
           /\ lootLast'.result = Some(activeLootDrops[lootLast'.id])
           /\ lootLast'.id \notin DOMAIN activeLootDrops'
    /\ (lootLast' # lootLast /\ lootLast'.op = "getActiveLootDrops") =>
           /\ lootLast'.result = Some(DOMAIN activeLootDrops)
           /\ activeLootDrops' = activeLootDrops
    /\ (lootLast' # lootLast /\ lootLast'.op = "getLootNearPosition") =>
           /\ lootLast'.result = Some(DOMAIN activeLootDrops \cap lootLast'.ids)
           /\ activeLootDrops' = activeLootDrops
    /\ (msgLast' # msgLast /\ msgLast'.op = "getMessage"
            /\ msgLast'.id \in DOMAIN messageQueue) =>
           /\ msgLast'.result = Some(messageQueue[msgLast'.id])
           /\ messageQueue' = messageQueue

\* an expired entry leaves its map by a cleanup or by a collectLoot
ExpiredLeaveByCleanup ==
    /\ \A id \in ExpiredDropsHeld \ DOMAIN activeLootDrops' :
          \/ lootLast'.op = "cleanup" /\ id \in lootLast'.ids
          \/ lootLast'.op = "collectLoot" /\ lootLast'.id = id
    /\ \A id \in ExpiredMessagesHeld \ DOMAIN messageQueue' :
          msgLast'.op = "cleanup" /\ id \in msgLast'.ids

\* an expired entry is held until the next cleanup, less than one cleanup
\* wait after its expiry time
HeldUntilNextCleanup ==
    /\ \A id \in ExpiredDropsHeld :
          /\ now <= lootSweepAt
          /\ lootSweepAt < activeLootDrops[id].expiresAt + LootCleanupWait
    /\ \A id \in ExpiredMessagesHeld :
          /\ now <= msgSweepAt
          /\ msgSweepAt < messageQueue[id].expiresAt + MessageCleanupWait

\* C38: expiry is enforced by the cleanup only: getMessage,
\* getActiveLootDrops, getLootNearPosition and collectLoot do not look at
\* expiresAt, so a drop or a message whose expiry time has passed is still
\* returned, and collected, until the next cleanup runs, up to one cleanup
\* wait after its expiry time.
C38_ExpiryBySweepOnly ==
    /\ []HeldUntilNextCleanup
    /\ [][ReadsIgnoreExpiry /\ ExpiredLeaveByCleanup]_vars

\* getLootNearPosition has returned a drop five seconds after its expiry
\* time, before the cleanup
C38_Witness ==
    /\ lootLast.op = "getLootNearPosition"
    /\ \E id \in lootLast.result[1] :
          /\ activeLootDrops[id].expiresAt < now
          /\ now = lootSweepAt

\* collectLoot has returned a drop at its expiry time, between two cleanups
C38_WitnessCollect ==
    /\ lootLast.op = "collectLoot"
    /\ lootLast.result # Undefined
    /\ lootLast.result[1].expiresAt = now
    /\ now < lootSweepAt

\* getMessage has returned a message after its expiry time
C38_WitnessMessage ==
    /\ msgLast.op = "getMessage"
    /\ msgLast.result # Undefined
    /\ msgLast.result[1].expiresAt < now

\* the NPC has died, or has left the store
NoLongerAlive(id) ==
    \/ id \in DOMAIN npcDeaths
    \/ id \in DOMAIN spawnedNPCs /\ ~spawnedNPCs[id].isAlive
    \/ id < nextNPCId /\ id \notin DOMAIN spawnedNPCs

\* a damageNPC on an NPC that has died returns false and leaves the NPC, its
\* health of 0 and the death handler that waits for it as they are
DeadTakesNoDamage ==
    (/\ npcLast' # npcLast
     /\ npcLast'.op = "damageNPC"
     /\ NoLongerAlive(npcLast'.id)) =>
        /\ npcLast'.result = Some(FALSE)
        /\ UNCHANGED <<spawnedNPCs, npcModels, nextNPCId, npcDeaths>>

\* a death handler is started by the damageNPC that brings the health of a
\* living NPC to 0, and by nothing else
DeathStartedByKill ==
    \A id \in DOMAIN npcDeaths' :
        (id \notin DOMAIN npcDeaths \/ npcDeaths'[id] # npcDeaths[id]) =>
            /\ npcLast'.op = "damageNPC"
            /\ npcLast'.id = id
            /\ id \in DOMAIN spawnedNPCs
            /\ spawnedNPCs[id].isAlive
            /\ id \notin DOMAIN npcDeaths
            /\ spawnedNPCs'[id].health = 0
            /\ ~spawnedNPCs'[id].isAlive

\* a dead NPC has the health 0
DeadHasNoHealth ==
    \A id \in DOMAIN spawnedNPCs : ~spawnedNPCs[id].isAlive => spawnedNPCs[id].health = 0

\* C39: the death of an NPC is handled at most once: after the damage call
\* that brings the health to 0, every later damageNPC on that NPC, also
\* during the wait before the despawn, returns false, leaves the health at 0
\* and starts neither a second loot resolution nor a second deferred
\* despawn.
C39_DeathHandledOnce ==
    /\ []DeadHasNoHealth
    /\ [][DeadTakesNoDamage /\ DeathStartedByKill]_vars

\* damageNPC on a dead NPC at the end of its wait, five seconds after the
\* kill and before the despawn
C39_Witness ==
    /\ npcLast.op = "damageNPC"
    /\ npcLast.result = Some(FALSE)
    /\ npcLast.id \in DOMAIN spawnedNPCs
    /\ ~spawnedNPCs[npcLast.id].isAlive
    /\ npcLast.id \in DOMAIN npcDeaths
    /\ npcDeaths[npcLast.id] = now
    /\ now >= NPC_DESPAWN_DELAY

\* C40: in a table whose total weight is positive, each roll selects
\* exactly one entry, and an entry of weight 0 is never selected, for every
\* draw in [0, totalWeight), the draw 0 and the draws equal to a cumulative
\* weight among them.
C40_ZeroWeightNeverSelected ==
    LET entries == lootGen.table.entries
    IN  (~lootGen.pending /\ TotalWeight(entries) > 0) =>
            /\ \A randomValue \in RandomValues(TotalWeight(entries)) :
                  /\ SelectEntry(entries, randomValue) \in 1..Len(entries)
                  /\ entries[SelectEntry(entries, randomValue)].weight > 0
            /\ \A r \in 1..Len(lootGen.rolled) :
                  /\ lootGen.rolled[r].entry \in 1..Len(entries)
                  /\ entries[lootGen.rolled[r].entry].weight > 0

=============================================================================
